---- MODULE Spec2Model ----
(***************************************************************************)
(* State-machine model of maim_message's WebSocket transport:              *)
(*   - the server business layer (WebSocketServer: registry, dispatcher,   *)
(*     send_message / broadcast_message, start / stop),                    *)
(*   - the client network driver (ClientNetworkDriver: connection table,   *)
(*     per-connection lifecycle task, connect / disconnect / remove),      *)
(*   - the client business layer's dispatcher (WebSocketClient).           *)
(* The server network driver (server_ws_connection.py) is not part of the  *)
(* sources at hand; its accept / close / send behaviour is modelled from   *)
(* the specification's section 4.3.                                        *)
(***************************************************************************)
EXTENDS Integers, Sequences, FiniteSets, TLC

VARIABLES
    side,                 \* which program this behaviour runs: "server" | "client"
    \* ---- WebSocketServer (server_ws_api.py) ----
    srvRunning,           \* self.running
    user_connections,     \* user_id -> platform -> set of uuids
    platform_connections, \* platform -> set of uuids
    connection_users,     \* uuid -> user_id
    connection_metadata,  \* uuid -> metadata
    srvStats,             \* stats["current_users"], stats["current_connections"]
    srvQueue,             \* self.event_queue (FIFO of NetworkEvent)
    srvHandlers,          \* handler invocations the dispatcher task is inside of
    srvCall,              \* the business API call in flight (send_message / broadcast_message)
    \* ---- ServerNetworkDriver (modelled from the specification) ----
    srvSockets,           \* accepted transport connections whose read loop is alive
    accepted,             \* number of handshakes accepted so far
    \* ---- WebSocketClient (client_ws_api.py) ----
    cliRunning,           \* self.running
    cliQueue,             \* self.event_queue (FIFO of NetworkEvent)
    cliHandlers,          \* handler invocations the dispatcher task is inside of
    \* ---- ClientNetworkDriver (client_ws_connection.py) ----
    drvRunning,           \* self.running
    main_loop,            \* self.main_loop is set (the worker thread's loop)
    shutdown_event,       \* self._shutdown_event.is_set()
    connections,          \* uuid -> ConnectionConfig
    connection_states,    \* uuid -> "connecting" | "connected" | "disconnected" | "error"
    active_connections,   \* uuid -> the websocket (named by the task that opened it)
    connection_tasks,     \* uuid -> task
    drvStats,             \* stats["current_connections"]
    tasks,                \* the _connection_loop tasks created so far, by task number
    opLog,                \* the driver operations that returned true so far
    connectAttempts,      \* number of connect attempts the network has answered so far
    acks,                 \* the sys_ack envelopes _send_ack handed to _send_raw_message
    cliCall,              \* the last WebSocketClient.send_message call and its outcome
    drvCall,              \* the last driver call that is not in opLog: a refused operation or a send
    \* ---- both sides ----
    frames,               \* number of frames read so far
    raised,               \* the business callbacks that raised so far, with the event's uuid
    built,                \* the WebSocketServer / WebSocketClient constructor calls so far
    stdMsg,               \* the sys_std payloads _handle_standard_message decoded so far
    timeouts,             \* number of queue gets of the client dispatcher that timed out
    connected,            \* WebSocketClient.connected
    starter,              \* the start() calls so far and the threads and tasks they created
    callbackBalance       \* uuid -> on_connect invocations minus on_disconnect invocations so far

srvVars == <<srvRunning, user_connections, platform_connections, connection_users,
             connection_metadata, srvStats, srvQueue, srvHandlers, srvCall, srvSockets,
             accepted>>

cliVars == <<cliRunning, cliQueue, cliHandlers, drvRunning, main_loop, shutdown_event,
             connections, connection_states, active_connections, connection_tasks,
             drvStats, tasks, opLog, connectAttempts, acks, cliCall, drvCall>>

\* what the model observes of callbacks, constructors, decoders and start
\* calls, and the client's connected flag
auxVars == <<raised, built, stdMsg, timeouts, connected, starter, callbackBalance>>

vars == <<side, srvVars, cliVars, frames, auxVars>>

(***************************************************************************)
(* Bounds of the model                                                     *)
(***************************************************************************)
MaxAccepts == 2
MaxFrames == 1
MaxTasks == 2
MaxConnects == 2
MaxOps == 4
MaxRaises == 2
MaxBuilt == 2
MaxStd == 2
MaxTimeouts == 2
MaxStarts == 3

(***************************************************************************)
(* Finite dictionaries (Python dict) as functions with an explicit domain  *)
(***************************************************************************)
EmptyMap == [x \in {} |-> {}]

Put(f, k, v) == [x \in (DOMAIN f) \cup {k} |-> IF x = k THEN v ELSE f[x]]

Del(f, k) == [x \in (DOMAIN f) \ {k} |-> f[x]]

Get(f, k, default) == IF k \in DOMAIN f THEN f[k] ELSE default

\* list.pop(i) for the 1-based position i
RemoveAt(s, i) == SubSeq(s, 1, i - 1) \o SubSeq(s, i + 1, Len(s))

(***************************************************************************)
(* Identities                                                              *)
(***************************************************************************)
UUIDs == {"c1", "c2"}
ApiKeys == {"k1", "k2"}
Platforms == {"qq", "wx"}
Users == {"U1", "U2"}

\* ConnectionMetadata of an accepted connection: the handshake's identity triple
Meta == [uuid : UUIDs, api_key : ApiKeys, platform : Platforms]

\* config.on_auth_extract_user, a deterministic function of the api key
ExtractUser(k) == IF k = "k1" THEN "U1" ELSE "U2"

(***************************************************************************)
(* NetworkEvent and the dispatcher's handler invocations                   *)
(***************************************************************************)
\* envelope types: str.startswith("sys_") / str.startswith("custom_") are true
\* of the names that bear the prefix; "a" is a custom name without the prefix,
\* "unknown" what data.get("type", "unknown") gives an envelope without type
SysPrefixed == {"sys_std", "sys_ack"}

CustomPrefixed == {"custom_a", "custom_b"}

MsgTypes == SysPrefixed \cup CustomPrefixed \cup {"a", "unknown"}

StartsWithSys(mt) == mt \in SysPrefixed

StartsWithCustom(mt) == mt \in CustomPrefixed

\* the keys of config.custom_handlers: a handler is registered for custom_a,
\* none for custom_b
RegisteredCustom == {"custom_a"}

\* config.custom_handlers.get(message_type): the handler registered under
\* exactly that key, named by its key
CustomHandler(mt) == IF mt \in RegisteredCustom THEN mt ELSE "none"

Event(t, m, mt) == [type |-> t, meta |-> m, mtype |-> mt]

\* auth: what _authenticate_connection came to for a Connect event
Handler(e, pc, auth) == [ev |-> e, pc |-> pc, auth |-> auth]

\* results of on_auth followed by on_auth_extract_user in _authenticate_connection
AuthOutcomes == {"ok", "auth_false", "auth_raise", "extract_empty", "extract_raise"}

\* a business API call: resolved is the target set as the call resolved it,
\* iterObj the set object its loop iterates, size0 that set's size at the loop's
\* start; uuid, user and mtype are the connection_uuid, target_user and wire
\* type of a send_custom_message
NoCall == [kind |-> "none", pc |-> "idle", key |-> "none", platform |-> "none",
           resolved |-> {}, iterObj |-> {}, attached |-> FALSE, size0 |-> 0,
           results |-> EmptyMap, noTarget |-> FALSE, uuid |-> "none", user |-> "none",
           mtype |-> "none"]

(***************************************************************************)
(* Registry updates of the dispatcher                                      *)
(***************************************************************************)
\* user_connections after lines 144-148
AddUserConnection(uc, u, p, c) ==
    LET plats == Get(uc, u, EmptyMap)
    IN  Put(uc, u, Put(plats, p, Get(plats, p, {}) \cup {c}))

\* platform_connections after lines 151-153
AddPlatformConnection(pcn, p, c) == Put(pcn, p, Get(pcn, p, {}) \cup {c})

\* user_connections after lines 178-190
RemoveUserConnection(uc, u, p, c) ==
    IF u \notin DOMAIN uc THEN uc
    ELSE LET plats == uc[u]
             plats1 == IF p \in DOMAIN plats
                       THEN IF plats[p] \ {c} = {}
                            THEN Del(plats, p)
                            ELSE Put(plats, p, plats[p] \ {c})
                       ELSE plats
         IN  IF DOMAIN plats1 = {} THEN Del(uc, u) ELSE Put(uc, u, plats1)

\* platform_connections after lines 193-198
RemovePlatformConnection(pcn, p, c) ==
    IF p \notin DOMAIN pcn THEN pcn
    ELSE IF pcn[p] \ {c} = {} THEN Del(pcn, p) ELSE Put(pcn, p, pcn[p] \ {c})

\* stats["current_users"], stats["current_connections"] as lines 160-161, 206-207 set them
StatsOf(uc, cu) == [current_users |-> Cardinality(DOMAIN uc),
                    current_connections |-> Cardinality(DOMAIN cu)]

\* The set object a suspended send_message / broadcast_message iterates over is
\* the registry's own set: the dispatcher's in-place add/discard is seen by the
\* iterator, and a set deleted from its dict (after it became empty) is detached.
CallTargetSet(call, uc, pcn) ==
    IF call.kind = "send"
    THEN Get(Get(uc, ExtractUser(call.key), EmptyMap), call.platform, {})
    ELSE Get(pcn, call.platform, {})

SyncCall(call, uc, pcn) ==
    IF call.pc = "iter" /\ call.attached
    THEN LET cur == CallTargetSet(call, uc, pcn)
         IN  [call EXCEPT !.iterObj = cur, !.attached = (cur # {})]
    ELSE call

(***************************************************************************)
(* ServerNetworkDriver: accept, read loop, close                           *)
(***************************************************************************)
\* A handshake is accepted whatever identity it carries: the transport tier
\* rejects nothing, so a x-uuid that a live connection already uses is accepted too.
SrvAccept(m) ==
    /\ side = "server" /\ srvRunning
    /\ m \notin srvSockets
    /\ accepted < MaxAccepts
    /\ accepted' = accepted + 1
    /\ srvSockets' = srvSockets \cup {m}
    /\ srvQueue' = Append(srvQueue, Event("connect", m, "none"))
    /\ UNCHANGED <<side, auxVars, cliVars, srvRunning, user_connections, platform_connections,
                   connection_users, connection_metadata, srvStats, srvHandlers, srvCall,
                   frames>>

\* one frame read from an accepted connection becomes one Message event
SrvReceive(m, mt) ==
    /\ side = "server" /\ srvRunning
    /\ m \in srvSockets
    /\ frames < MaxFrames
    /\ frames' = frames + 1
    /\ srvQueue' = Append(srvQueue, Event("message", m, mt))
    /\ UNCHANGED <<side, auxVars, cliVars, srvRunning, user_connections, platform_connections,
                   connection_users, connection_metadata, srvStats, srvHandlers,
                   srvCall, srvSockets, accepted>>

\* the peer closes, or the transport fails: the read loop ends with a Disconnect event
SrvClose(m) ==
    /\ side = "server" /\ srvRunning
    /\ m \in srvSockets
    /\ srvSockets' = srvSockets \ {m}
    /\ srvQueue' = Append(srvQueue, Event("disconnect", m, "none"))
    /\ UNCHANGED <<side, auxVars, cliVars, srvRunning, user_connections, platform_connections,
                   connection_users, connection_metadata, srvStats, srvHandlers, srvCall,
                   accepted, frames>>

\* network_driver.disconnect_client(uuid, reason): the accepted connections that
\* carry that uuid are closed
ClosedByDisconnectClient(socks, c) == {s \in socks : s.uuid = c}

RECURSIVE DisconnectEvents(_)
DisconnectEvents(socks) ==
    IF socks = {} THEN <<>>
    ELSE LET s == CHOOSE x \in socks : TRUE
         IN  <<Event("disconnect", s, "none")>> \o DisconnectEvents(socks \ {s})

\* network_driver.send_message(uuid, package): true iff the frame was written
DriverSend(socks, c) == \E s \in socks : s.uuid = c

(***************************************************************************)
(* WebSocketServer._dispatcher_loop and the three event handlers           *)
(***************************************************************************)
\* a dispatcher that would start each handler as a task of its own
DispatcherFireAndForget == TRUE

\* `await self._handle_..._event(event)`: the loop takes the next event only
\* after the handler it awaits has returned
DispatcherReady == srvHandlers = <<>>

\* `await asyncio.wait_for(self.event_queue.get(), ...)`: the oldest event
NextEvent(q) == Head(q)

RestOfQueue(q) == Tail(q)

\* an authentication that would take an empty user id for a success
AuthSuccessEmptyUser(outcome) == outcome \in {"ok", "extract_empty"}

\* _authenticate_connection: success iff on_auth returned true and
\* on_auth_extract_user returned a non-empty user id
AuthSuccess(outcome) == outcome = "ok"

\* a classification that would hand every custom type to the registered handler
MessageHandlerLoose(mt) ==
    IF mt = "sys_std" THEN "on_message"
    ELSE IF StartsWithCustom(mt) THEN "custom_a"
    ELSE "none"

\* _handle_message_event: which business handler, if any, a Message event invokes
MessageHandlerOf(mt) ==
    IF mt = "sys_std" THEN "on_message"
    ELSE IF StartsWithCustom(mt) THEN CustomHandler(mt)
    ELSE IF StartsWithSys(mt) THEN "none"
    ELSE "none"

\* the dispatcher takes a Connect event: _handle_connect_event up to its first
\* await, the call of on_auth inside _authenticate_connection
DispatchConnect ==
    /\ side = "server" /\ srvRunning /\ DispatcherReady
    /\ srvQueue # <<>>
    /\ NextEvent(srvQueue).type = "connect"
    /\ srvQueue' = RestOfQueue(srvQueue)
    /\ srvHandlers' = Append(srvHandlers, Handler(NextEvent(srvQueue), "auth", "pending"))
    /\ UNCHANGED <<side, auxVars, cliVars, srvRunning, user_connections, platform_connections,
                   connection_users, connection_metadata, srvStats, srvCall, srvSockets, accepted, frames>>

\* on_auth / on_auth_extract_user have returned (or raised): on failure
\* disconnect_client is called and awaited; on success the connection is
\* registered in all tables and on_connect is called
ConnectAuthReturn(i, outcome) ==
    /\ side = "server"
    /\ i \in DOMAIN srvHandlers /\ srvHandlers[i].pc = "auth"
    /\ LET h == srvHandlers[i]
           m == h.ev.meta
           u == ExtractUser(m.api_key)
       IN  IF AuthSuccess(outcome)
           THEN /\ user_connections' = AddUserConnection(user_connections, u, m.platform, m.uuid)
                /\ platform_connections' = AddPlatformConnection(platform_connections, m.platform, m.uuid)
                /\ connection_users' = Put(connection_users, m.uuid, u)
                /\ connection_metadata' = Put(connection_metadata, m.uuid, m)
                /\ srvStats' = StatsOf(user_connections', connection_users')
                /\ srvHandlers' = [srvHandlers EXCEPT ![i] = Handler(h.ev, "on_connect", outcome)]
                /\ callbackBalance' = [callbackBalance EXCEPT ![m.uuid] = @ + 1]
                /\ srvCall' = SyncCall(srvCall, user_connections', platform_connections')
                /\ UNCHANGED <<srvSockets, srvQueue>>
           ELSE /\ srvSockets' = srvSockets \ ClosedByDisconnectClient(srvSockets, m.uuid)
                /\ srvQueue' = srvQueue \o DisconnectEvents(ClosedByDisconnectClient(srvSockets, m.uuid))
                /\ srvHandlers' = [srvHandlers EXCEPT ![i] = Handler(h.ev, "rejecting", outcome)]
                /\ UNCHANGED <<user_connections, platform_connections, connection_users,
                               connection_metadata, srvStats, srvCall, callbackBalance>>
    /\ UNCHANGED <<side, raised, built, stdMsg, timeouts, connected, starter, cliVars,
                   srvRunning, accepted, frames>>

\* the dispatcher takes a Disconnect event: _handle_disconnect_event removes the
\* connection from the tables, then calls on_disconnect
DispatchDisconnect ==
    /\ side = "server" /\ srvRunning /\ DispatcherReady
    /\ srvQueue # <<>>
    /\ NextEvent(srvQueue).type = "disconnect"
    /\ srvQueue' = RestOfQueue(srvQueue)
    /\ LET ev == NextEvent(srvQueue)
           c == ev.meta.uuid
       IN  /\ IF c \in DOMAIN connection_users
              THEN LET u == connection_users[c]
                       p == IF c \in DOMAIN connection_metadata
                            THEN connection_metadata[c].platform
                            ELSE ev.meta.platform
                   IN  /\ user_connections' = RemoveUserConnection(user_connections, u, p, c)
                       /\ platform_connections' =
                              RemovePlatformConnection(platform_connections, ev.meta.platform, c)
                       /\ connection_users' = Del(connection_users, c)
                       /\ connection_metadata' = Del(connection_metadata, c)
                       /\ srvStats' = StatsOf(user_connections', connection_users')
              ELSE UNCHANGED <<user_connections, platform_connections, connection_users,
                               connection_metadata, srvStats>>
           /\ srvHandlers' = Append(srvHandlers, Handler(ev, "on_disconnect", "none"))
           /\ callbackBalance' = [callbackBalance EXCEPT ![c] = @ - 1]
    /\ srvCall' = SyncCall(srvCall, user_connections', platform_connections')
    /\ UNCHANGED <<side, raised, built, stdMsg, timeouts, connected, starter, cliVars,
                   srvRunning, srvSockets, accepted, frames>>

\* the dispatcher takes a Message event: _handle_message_event classifies it by
\* its type and calls on_message, a custom handler, or nothing
DispatchMessage ==
    /\ side = "server" /\ srvRunning /\ DispatcherReady
    /\ srvQueue # <<>>
    /\ NextEvent(srvQueue).type = "message"
    /\ srvQueue' = RestOfQueue(srvQueue)
    /\ LET ev == NextEvent(srvQueue)
       IN  srvHandlers' = IF MessageHandlerOf(ev.mtype) = "none"
                          THEN srvHandlers
                          ELSE Append(srvHandlers, Handler(ev, MessageHandlerOf(ev.mtype), "none"))
    /\ UNCHANGED <<side, auxVars, cliVars, srvRunning, user_connections, platform_connections,
                   connection_users, connection_metadata, srvStats, srvCall, srvSockets, accepted, frames>>

\* the awaited business callback (on_connect, on_disconnect, on_message, a custom
\* handler) or disconnect_client returns or raises: the handler is over
HandlerReturn(i) ==
    /\ side = "server"
    /\ i \in DOMAIN srvHandlers /\ srvHandlers[i].pc \notin {"auth", "crashed"}
    /\ srvHandlers' = RemoveAt(srvHandlers, i)
    /\ UNCHANGED <<side, auxVars, cliVars, srvRunning, user_connections, platform_connections,
                   connection_users, connection_metadata, srvStats, srvQueue,
                   srvCall, srvSockets, accepted, frames>>

(***************************************************************************)
(* WebSocketServer.send_message / broadcast_message                        *)
(***************************************************************************)
CallFree == srvCall.pc \in {"idle", "returned", "raised"}

\* send_message is called: it awaits on_auth_extract_user({"api_key": api_key})
SendMessageCall(k, p) ==
    /\ side = "server" /\ CallFree
    /\ srvCall' = [NoCall EXCEPT !.kind = "send", !.pc = "extract", !.key = k, !.platform = p]
    /\ UNCHANGED <<side, auxVars, cliVars, srvRunning, user_connections, platform_connections,
                   connection_users, connection_metadata, srvStats, srvQueue,
                   srvHandlers, srvSockets, accepted, frames>>

\* a resolution that would fall back to the user's other platforms
SendTargetsAnyPlatform(uc, k, p) ==
    LET u == ExtractUser(k)
    IN  IF u \notin DOMAIN uc THEN {}
        ELSE IF p \notin DOMAIN uc[u] THEN UNION {uc[u][q] : q \in DOMAIN uc[u]}
        ELSE uc[u][p]

\* the connections send_message resolves for (api_key k, platform p):
\* user_connections[user][platform], or nothing when either level is absent
SendTargets(uc, k, p) ==
    LET u == ExtractUser(k)
    IN  IF u \notin DOMAIN uc THEN {}
        ELSE IF p \notin DOMAIN uc[u] THEN {}
        ELSE uc[u][p]

\* the connections broadcast_message(message, platform=p) resolves
BroadcastTargets(pcn, p) == Get(pcn, p, {})

\* the call starts iterating over the resolved set object: the first connection
\* is written before the call is suspended
StartIteration(call, targets, c) ==
    [call EXCEPT !.pc = "iter", !.resolved = targets, !.iterObj = targets, !.attached = TRUE,
                 !.size0 = Cardinality(targets),
                 !.results = Put(EmptyMap, c, DriverSend(srvSockets, c))]

\* on_auth_extract_user has returned or raised; the target set is resolved
SendResolve(outcome) ==
    /\ side = "server"
    /\ srvCall.kind = "send" /\ srvCall.pc = "extract"
    /\ LET targets == SendTargets(user_connections, srvCall.key, srvCall.platform)
       IN  IF outcome = "raise" \/ targets = {}
           THEN srvCall' = [srvCall EXCEPT !.pc = "returned", !.noTarget = TRUE]
           ELSE \E c \in targets : srvCall' = StartIteration(srvCall, targets, c)
    /\ UNCHANGED <<side, auxVars, cliVars, srvRunning, user_connections, platform_connections,
                   connection_users, connection_metadata, srvStats, srvQueue,
                   srvHandlers, srvSockets, accepted, frames>>

\* broadcast_message(message, platform=p) is called
BroadcastCall(p) ==
    /\ side = "server" /\ CallFree
    /\ LET targets == BroadcastTargets(platform_connections, p)
           call == [NoCall EXCEPT !.kind = "bcast", !.platform = p]
       IN  IF targets = {}
           THEN srvCall' = [call EXCEPT !.pc = "returned", !.noTarget = TRUE]
           ELSE \E c \in targets : srvCall' = StartIteration(call, targets, c)
    /\ UNCHANGED <<side, auxVars, cliVars, srvRunning, user_connections, platform_connections,
                   connection_users, connection_metadata, srvStats, srvQueue,
                   srvHandlers, srvSockets, accepted, frames>>

\* `for connection_uuid in target_connections`: the set iterator raises
\* RuntimeError when the set's size differs from its size at the loop's start
IterationBroken(call) == Cardinality(call.iterObj) # call.size0

\* the write to one connection has returned; the loop writes to the next one
CallWrite(c) ==
    /\ side = "server"
    /\ srvCall.pc = "iter" /\ ~IterationBroken(srvCall)
    /\ c \in srvCall.iterObj \ DOMAIN srvCall.results
    /\ srvCall' = [srvCall EXCEPT !.results = Put(srvCall.results, c, DriverSend(srvSockets, c))]
    /\ UNCHANGED <<side, auxVars, cliVars, srvRunning, user_connections, platform_connections,
                   connection_users, connection_metadata, srvStats, srvQueue,
                   srvHandlers, srvSockets, accepted, frames>>

\* the loop is exhausted: the call returns its result map
CallReturn ==
    /\ side = "server"
    /\ srvCall.pc = "iter" /\ ~IterationBroken(srvCall)
    /\ srvCall.iterObj \ DOMAIN srvCall.results = {}
    /\ srvCall' = [srvCall EXCEPT !.pc = "returned"]
    /\ UNCHANGED <<side, auxVars, cliVars, srvRunning, user_connections, platform_connections,
                   connection_users, connection_metadata, srvStats, srvQueue,
                   srvHandlers, srvSockets, accepted, frames>>

\* the dispatcher changed the size of the set while the call was suspended
CallRaise ==
    /\ side = "server"
    /\ srvCall.pc = "iter" /\ IterationBroken(srvCall)
    /\ srvCall' = [srvCall EXCEPT !.pc = "raised"]
    /\ UNCHANGED <<side, auxVars, cliVars, srvRunning, user_connections, platform_connections,
                   connection_users, connection_metadata, srvStats, srvQueue,
                   srvHandlers, srvSockets, accepted, frames>>

(***************************************************************************)
(* WebSocketServer.send_custom_message                                     *)
(***************************************************************************)
\* custom type names as a caller may give them: with and without the prefix
CustomNames == {"a", "custom_a"}

\* `if not message_type.startswith("custom_"): message_type = f"custom_{message_type}"`
WithCustomPrefix(T) ==
    IF StartsWithCustom(T) THEN T
    ELSE IF T = "a" THEN "custom_a"
    ELSE "custom_b"

\* the "type" of the envelope the server's send_custom_message builds: the
\* caller's message_type as it stands
ServerWireType(T) == T

\* the "type" of the envelope the client's send_custom_message builds
ClientWireType(T) == WithCustomPrefix(T)

\* the key register_custom_handler(T, handler) stores the handler under
RegisterKey(T) == WithCustomPrefix(T)

\* send_custom_message raises TypeError: with target_user registered and a
\* target_platform given it evaluates `dict & set`
CustomRaises(uc, cu, tu, tp) ==
    cu = "none" /\ tu # "none" /\ tu \in DOMAIN uc /\ tp # "none"

\* the elements the send loop of send_custom_message iterates over: the given
\* connection_uuid; else, for a target_user, the keys of the dict
\* user_connections[target_user] (platform names) or nothing for a user
\* without entry; else nothing
CustomTargets(uc, cu, tu, tp) ==
    IF cu # "none" THEN {cu}
    ELSE IF tu # "none" /\ tu \in DOMAIN uc /\ tp = "none" THEN DOMAIN uc[tu]
    ELSE {}

\* send_custom_message(message_type, payload, target_user, target_platform,
\* connection_uuid), "none" standing for an argument not given; the writes of
\* its loop are taken in one step
SendCustomCall(T, cu, tu, tp) ==
    /\ side = "server" /\ CallFree
    /\ LET call == [NoCall EXCEPT !.kind = "custom", !.uuid = cu, !.user = tu,
                                  !.platform = tp, !.mtype = ServerWireType(T)]
           targets == CustomTargets(user_connections, cu, tu, tp)
       IN  srvCall' =
              IF CustomRaises(user_connections, cu, tu, tp)
              THEN [call EXCEPT !.pc = "raised"]
              ELSE [call EXCEPT !.pc = "returned", !.resolved = targets,
                                !.results = [c \in targets |-> DriverSend(srvSockets, c)]]
    /\ srvCall' # srvCall
    /\ UNCHANGED <<side, auxVars, cliVars, srvRunning, user_connections, platform_connections,
                   connection_users, connection_metadata, srvStats, srvQueue,
                   srvHandlers, srvSockets, accepted, frames>>

(***************************************************************************)
(* WebSocketServer.start / stop                                            *)
(***************************************************************************)
SrvStart ==
    /\ side = "server" /\ ~srvRunning
    /\ srvRunning' = TRUE
    /\ UNCHANGED <<side, auxVars, cliVars, user_connections, platform_connections, connection_users,
                   connection_metadata, srvStats, srvQueue, srvHandlers, srvCall,
                   srvSockets, accepted, frames>>

\* what stop() leaves in connection_metadata and in stats: it clears
\* user_connections, platform_connections and connection_users only
MetadataAfterStop(md) == md

StatsAfterStop(st) == st

\* stop(): the dispatcher task is cancelled (inside whatever handler it awaits),
\* the network driver is stopped (every accepted connection is dropped), and the
\* registry dicts are cleared; a suspended send keeps the set object it iterates
SrvStop ==
    /\ side = "server" /\ srvRunning
    /\ srvRunning' = FALSE
    /\ srvHandlers' = <<>>
    /\ srvSockets' = {}
    /\ user_connections' = EmptyMap
    /\ platform_connections' = EmptyMap
    /\ connection_users' = EmptyMap
    /\ connection_metadata' = MetadataAfterStop(connection_metadata)
    /\ srvStats' = StatsAfterStop(srvStats)
    /\ srvCall' = [srvCall EXCEPT !.attached = FALSE]
    /\ UNCHANGED <<side, auxVars, cliVars, srvQueue, accepted, frames>>

(***************************************************************************)
(* ClientNetworkDriver: connection table and control operations            *)
(***************************************************************************)
CliUUIDs == {"c1", "c2"}

\* WebSocketClient.config.connection_uuid, the client's main connection
MainUUID == "c1"

\* `await asyncio.wait_for(asyncio.sleep(reconnect_delay), timeout=30.0)`
WaitTimeout == 30

\* ConnectionConfig: the identity of the connection and the fields the
\* connection loop reads
ConfigsOf(keys, plats, attempts, maxDelays) ==
    [api_key : keys, platform : plats, max_reconnect_attempts : attempts,
     reconnect_delay : {20}, max_reconnect_delay : maxDelays]

Configs == ConfigsOf({"k1"}, {"qq"}, {1, 2}, {30, 50})

NoConfig == [api_key |-> "none", platform |-> "none", max_reconnect_attempts |-> 0,
             reconnect_delay |-> 0, max_reconnect_delay |-> 0]

Min(a, b) == IF a <= b THEN a ELSE b

CliEvent(t, u, mt, err) == [type |-> t, uuid |-> u, mtype |-> mt, error |-> err]

\* a _connection_loop coroutine that has not run yet.  attempts / delay are its
\* locals reconnect_attempts / reconnect_delay, cfg its local config; wait is the
\* time its current reconnect wait lasts; streak, fails and succeeded record its
\* past: waits and failed connect attempts since the last successful connect (or
\* since its start), and whether it ever connected; announced tells whether the
\* Connect event of its current session was enqueued, closed whether its
\* websocket was closed from this side, got the frames it handed to
\* _handle_message
NewTask(u) == [uuid |-> u, pc |-> "start", cancelled |-> FALSE, cfg |-> NoConfig,
               attempts |-> 0, delay |-> 0, wait |-> 0, streak |-> 0, fails |-> 0,
               succeeded |-> FALSE, announced |-> FALSE, closed |-> FALSE, got |-> <<>>]

TaskDone(tk) == tk.pc = "done"

\* the try block of _connection_loop is entered: a cancellation runs `finally`
RunsFinally(tk) == tk.pc \in {"connecting", "reading"}

Logged(log, u, op) == Append(log, [op |-> op, uuid |-> u])

\* a registration that would start in the state 'connecting'
StatesAfterAddConnecting(cs, u) == Put(cs, u, "connecting")

\* `self.connection_states[connection_uuid] = "disconnected"` of add_connection
StatesAfterAdd(cs, u) == Put(cs, u, "disconnected")

\* add_connection(config)
AddConnection(u, cfg) ==
    /\ side = "client"
    /\ u \notin DOMAIN connections
    /\ Len(opLog) < MaxOps
    /\ connections' = Put(connections, u, cfg)
    /\ connection_states' = StatesAfterAdd(connection_states, u)
    /\ opLog' = Logged(opLog, u, "add")
    /\ UNCHANGED <<side, auxVars, srvVars, frames, acks, cliCall, drvCall, cliRunning, cliQueue, cliHandlers, drvRunning,
                   main_loop, shutdown_event, active_connections, connection_tasks,
                   drvStats, tasks, connectAttempts>>

\* connect(uuid) creates the lifecycle task in the caller's loop and records it in
\* connection_tasks, unless the driver's worker loop exists and is not the
\* caller's loop: then the coroutine is handed to the worker loop and no task is
\* recorded
TaskIsRecorded(workerLoopSet, sameLoop) == ~workerLoopSet \/ sameLoop

\* connect(uuid); sameLoop: the caller runs on the driver's worker loop.  The
\* caller does not connect after stop(), when the worker loop is closed.  An
\* already connected uuid returns true at once
Connect(u, sameLoop) ==
    /\ side = "client"
    /\ u \in DOMAIN connections
    /\ ~shutdown_event
    /\ main_loop \/ sameLoop
    /\ Len(opLog) < MaxOps
    /\ opLog' = Logged(opLog, u, "connect")
    /\ IF connection_states[u] # "connected" /\ u \notin DOMAIN connection_tasks
       THEN /\ Len(tasks) < MaxTasks
            /\ tasks' = Append(tasks, NewTask(u))
            /\ connection_tasks' = IF TaskIsRecorded(main_loop, sameLoop)
                                   THEN Put(connection_tasks, u, Len(tasks) + 1)
                                   ELSE connection_tasks
       ELSE UNCHANGED <<tasks, connection_tasks>>
    /\ UNCHANGED <<side, auxVars, srvVars, frames, acks, cliCall, drvCall, cliRunning, cliQueue, cliHandlers, drvRunning,
                   main_loop, shutdown_event, connections, connection_states,
                   active_connections, drvStats, connectAttempts>>

\* task.cancel() without awaiting the task
CancelRequested(ts, t) ==
    IF TaskDone(ts[t]) THEN ts ELSE [ts EXCEPT ![t].cancelled = TRUE]

\* disconnect(uuid): the recorded task is cancelled but not awaited
Disconnect(u) ==
    /\ side = "client"
    /\ u \in DOMAIN connections
    /\ Len(opLog) < MaxOps
    /\ opLog' = Logged(opLog, u, "disconnect")
    /\ IF u \in DOMAIN connection_tasks
       THEN /\ tasks' = CancelRequested(tasks, connection_tasks[u])
            /\ connection_tasks' = Del(connection_tasks, u)
       ELSE UNCHANGED <<tasks, connection_tasks>>
    /\ IF u \in DOMAIN active_connections
       THEN /\ connection_states' = Put(connection_states, u, "disconnected")
            /\ active_connections' = Del(active_connections, u)
       ELSE UNCHANGED <<connection_states, active_connections>>
    /\ UNCHANGED <<side, auxVars, srvVars, frames, acks, cliCall, drvCall, cliRunning, cliQueue, cliHandlers, drvRunning,
                   main_loop, shutdown_event, connections, drvStats, connectAttempts>>

\* the `finally` block of the connection loop
ActiveAfterFinally(ac, u) == Del(ac, u)

StatesAfterFinally(cs, u) == Put(cs, u, "disconnected")

StatsAfterFinally(st) == [st EXCEPT !.current_connections = @ - 1]

\* `await websocket.close()` of remove_connection: the task that owns the
\* active websocket of u gets no further frame from it
SocketClosed(ts, ac, u) ==
    IF u \in DOMAIN ac /\ ~TaskDone(ts[ac[u]])
    THEN [ts EXCEPT ![ac[u]].closed = TRUE]
    ELSE ts

\* remove_connection(uuid): a recorded task is cancelled and awaited (its
\* `finally` block runs before the await returns), the active websocket is
\* closed, then the entries are deleted
RemoveConnection(u) ==
    /\ side = "client"
    /\ u \in DOMAIN connections
    /\ Len(opLog) < MaxOps
    /\ opLog' = Logged(opLog, u, "remove")
    /\ LET recorded == u \in DOMAIN connection_tasks
           t == IF recorded THEN connection_tasks[u] ELSE 0
           unwinds == recorded /\ RunsFinally(tasks[t])
           awaited == IF recorded /\ ~TaskDone(tasks[t])
                      THEN [tasks EXCEPT ![t].pc = "done", ![t].cancelled = TRUE]
                      ELSE tasks
           acAwaited == IF unwinds THEN ActiveAfterFinally(active_connections, u)
                        ELSE active_connections
       IN  /\ tasks' = SocketClosed(awaited, acAwaited, u)
           /\ connection_tasks' = Del(connection_tasks, u)
           /\ drvStats' = IF unwinds THEN StatsAfterFinally(drvStats) ELSE drvStats
           /\ active_connections' = Del(active_connections, u)
           /\ connections' = Del(connections, u)
           /\ connection_states' = Del(connection_states, u)
    /\ UNCHANGED <<side, auxVars, srvVars, frames, acks, cliCall, drvCall, cliRunning, cliQueue, cliHandlers, drvRunning,
                   main_loop, shutdown_event, connectAttempts>>

(***************************************************************************)
(* ClientNetworkDriver._connection_loop, one task per connect()            *)
(***************************************************************************)
\* _send_event: the event is dropped when the driver has no queue yet or the
\* connection is no longer registered
SendEvent(q, conns, hasQueue, ev) ==
    IF hasQueue /\ ev.uuid \in DOMAIN conns THEN Append(q, ev) ELSE q

\* `while self.running and connection_uuid in self.connections and not shutdown`
LoopCondition(run, conns, sd, u) == run /\ u \in DOMAIN conns /\ ~sd

\* a decision that would allow one reconnect too many
ShouldReconnectInclusive(run, conns, sd, u, attempts, cfg) ==
    /\ run
    /\ u \in DOMAIN conns
    /\ attempts <= cfg.max_reconnect_attempts
    /\ ~sd

\* should_reconnect of the reconnect decision
ShouldReconnect(run, conns, sd, u, attempts, cfg) ==
    /\ run
    /\ u \in DOMAIN conns
    /\ attempts < cfg.max_reconnect_attempts
    /\ ~sd

\* the time the reconnect wait lasts: asyncio.sleep(reconnect_delay) under a
\* wait_for whose timeout ends the wait early
ActualWait(delay) == Min(delay, WaitTimeout)

\* `reconnect_delay = min(config.max_reconnect_delay, reconnect_delay * 2)`
NextDelay(cfg, delay) == Min(cfg.max_reconnect_delay, delay * 2)

Runnable(t) == t \in DOMAIN tasks /\ ~TaskDone(tasks[t]) /\ ~tasks[t].cancelled

\* the loop head: the state becomes "connecting" and the connect is started, or
\* the loop is left
LoopHead(t, tk) ==
    IF LoopCondition(drvRunning, connections, shutdown_event, tk.uuid)
    THEN /\ connection_states' = Put(connection_states, tk.uuid, "connecting")
         /\ tasks' = [tasks EXCEPT ![t] = [tk EXCEPT !.pc = "connecting"]]
    ELSE /\ connection_states' = connection_states
         /\ tasks' = [tasks EXCEPT ![t] = [tk EXCEPT !.pc = "done"]]

\* the task runs for the first time: it reads its config (a missing entry ends
\* the task with KeyError) and reaches the loop head
TaskBegin(t) ==
    /\ side = "client"
    /\ Runnable(t) /\ tasks[t].pc = "start"
    /\ LET tk == tasks[t]
       IN  IF tk.uuid \notin DOMAIN connections
           THEN /\ tasks' = [tasks EXCEPT ![t].pc = "done"]
                /\ UNCHANGED connection_states
           ELSE LoopHead(t, [tk EXCEPT !.cfg = connections[tk.uuid],
                                       !.delay = connections[tk.uuid].reconnect_delay,
                                       !.attempts = 0])
    /\ UNCHANGED <<side, auxVars, srvVars, frames, acks, cliCall, drvCall, cliRunning, cliQueue, cliHandlers, drvRunning,
                   main_loop, shutdown_event, connections, active_connections,
                   connection_tasks, drvStats, opLog, connectAttempts>>

\* the handshake succeeds: lines 319-333
ConnectSucceed(t) ==
    /\ side = "client"
    /\ Runnable(t) /\ tasks[t].pc = "connecting"
    /\ connectAttempts < MaxConnects
    /\ connectAttempts' = connectAttempts + 1
    /\ LET tk == tasks[t]
           u == tk.uuid
       IN  /\ active_connections' = Put(active_connections, u, t)
           /\ connection_states' = Put(connection_states, u, "connected")
           /\ drvStats' = [drvStats EXCEPT !.current_connections = @ + 1]
           /\ cliQueue' = SendEvent(cliQueue, connections, main_loop,
                                    CliEvent("connect", u, "none", FALSE))
           /\ tasks' = [tasks EXCEPT ![t] =
                  [tk EXCEPT !.pc = "reading", !.attempts = 0,
                             !.delay = tk.cfg.reconnect_delay,
                             !.wait = 0, !.streak = 0, !.fails = 0, !.succeeded = TRUE,
                             !.announced = (main_loop /\ u \in DOMAIN connections),
                             !.closed = FALSE]]
    /\ UNCHANGED <<side, auxVars, srvVars, frames, acks, cliCall, drvCall, cliRunning, cliHandlers, drvRunning, main_loop,
                   shutdown_event, connections, connection_tasks, opLog>>

\* the try block is left (normally or by a caught exception): the `finally`
\* block, then the reconnect decision of lines 372-406 up to its wait or break.
\* q is the event queue as the except clause left it, failed tells a failed
\* connect attempt from the end of an established session
LeaveTry(t, q, failed) ==
    LET tk == tasks[t]
        u == tk.uuid
        cs == StatesAfterFinally(connection_states, u)
        tk1 == [tk EXCEPT !.fails = IF failed THEN @ + 1 ELSE @,
                          !.announced = FALSE, !.closed = FALSE]
    IN  /\ active_connections' = ActiveAfterFinally(active_connections, u)
        /\ drvStats' = StatsAfterFinally(drvStats)
        /\ cliQueue' = q
        /\ IF ShouldReconnect(drvRunning, connections, shutdown_event, u, tk.attempts, tk.cfg)
           THEN /\ connection_states' = cs
                /\ tasks' = [tasks EXCEPT ![t] =
                       [tk1 EXCEPT !.pc = "sleeping", !.attempts = @ + 1,
                                   !.wait = ActualWait(tk.delay), !.streak = @ + 1]]
           ELSE /\ connection_states' =
                       IF u \in DOMAIN connections /\ ~shutdown_event
                       THEN Put(cs, u, "error")
                       ELSE cs
                /\ tasks' = [tasks EXCEPT ![t] = [tk1 EXCEPT !.pc = "done"]]

\* the handshake fails: `except Exception` sends a Disconnect event
ConnectFail(t) ==
    /\ side = "client"
    /\ Runnable(t) /\ tasks[t].pc = "connecting"
    /\ connectAttempts < MaxConnects
    /\ connectAttempts' = connectAttempts + 1
    /\ LeaveTry(t, SendEvent(cliQueue, connections, main_loop,
                             CliEvent("disconnect", tasks[t].uuid, "none", TRUE)), TRUE)
    /\ UNCHANGED <<side, auxVars, srvVars, frames, acks, cliCall, drvCall, cliRunning, cliHandlers, drvRunning, main_loop,
                   shutdown_event, connections, connection_tasks, opLog>>

\* a frame received on a websocket: a text that parses as a JSON object (an
\* envelope with its type and msg_id; mid "none": no msg_id key, "empty": an
\* empty msg_id), a text that parses as JSON but not as an object, or a text
\* that does not parse
MsgIds == {"none", "empty", "m1"}

ObjectFrames == [kind : {"object"}, mtype : MsgTypes, mid : MsgIds]

NoEnvelope == {[kind |-> k, mtype |-> "unknown", mid |-> "none"] : k \in {"json_other", "garbage"}}

Frames == ObjectFrames \cup NoEnvelope

\* _handle_message, lines 419-426: `list(data.keys())` raises AttributeError
\* for parsed JSON that is not an object, and only JSONDecodeError is caught
\* there: the outer `except Exception` logs it and the frame is dropped
ParseRaises(f) == f.kind = "json_other"

\* data.get("type", "unknown") of the Message event's payload; an unparseable
\* text is wrapped as {"raw_message": text}
PayloadType(f) == IF f.kind = "object" THEN f.mtype ELSE "unknown"

\* an acknowledgement rule that would acknowledge acknowledgements as well
AckNeededForAcksToo(f) == f.kind = "object" /\ f.mid \notin {"none", "empty"}

\* `if msg_id and data.get("type") != "sys_ack"`
AckNeeded(f) == f.kind = "object" /\ f.mid \notin {"none", "empty"} /\ f.mtype # "sys_ack"

\* outcomes of websocket.send in _send_raw_message
SendOutcomes == {"ok", "closed", "error"}

\* _send_ack -> _send_raw_message: the envelope goes to the websocket recorded
\* in active_connections for the uuid (via; 0 when there is none)
AckSent(t, u, f, ac, out) ==
    [uuid |-> u, acked |-> f.mid, by |-> t, via |-> Get(ac, u, 0),
     sent |-> (u \in DOMAIN ac /\ out = "ok")]

\* a frame arrives in the read loop: the loop is left when the driver stopped or
\* the connection was removed, otherwise _handle_message acknowledges it when
\* needed and sends a Message event
ReadFrame(t, f, out) ==
    /\ side = "client"
    /\ Runnable(t) /\ tasks[t].pc = "reading" /\ ~tasks[t].closed
    /\ frames < MaxFrames
    /\ frames' = frames + 1
    /\ LET u == tasks[t].uuid
       IN  IF ~drvRunning \/ u \notin DOMAIN connections
           THEN LeaveTry(t, cliQueue, FALSE) /\ UNCHANGED acks
           ELSE IF ParseRaises(f)
           THEN /\ tasks' = [tasks EXCEPT ![t].got = Append(@, f)]
                /\ UNCHANGED <<cliQueue, acks, active_connections, drvStats,
                               connection_states>>
           ELSE /\ tasks' = [tasks EXCEPT ![t].got = Append(@, f)]
                /\ acks' = IF AckNeeded(f)
                           THEN Append(acks, AckSent(t, u, f, active_connections, out))
                           ELSE acks
                /\ connection_states' =
                       IF AckNeeded(f) /\ u \in DOMAIN active_connections /\ out = "closed"
                       THEN Put(connection_states, u, "disconnected")
                       ELSE connection_states
                /\ cliQueue' = SendEvent(cliQueue, connections, main_loop,
                                         CliEvent("message", u, PayloadType(f), FALSE))
                /\ UNCHANGED <<active_connections, drvStats>>
    /\ UNCHANGED <<side, auxVars, srvVars, cliCall, drvCall, cliRunning, cliHandlers, drvRunning, main_loop,
                   shutdown_event, connections, connection_tasks, opLog, connectAttempts>>

ReadEnds == {"closed_ok", "closed_error", "exception"}

\* the read loop ends: the peer closed normally (the loop is exhausted), the peer
\* closed with an error (ConnectionClosedError is logged only), or another
\* exception (a Disconnect event is sent)
ReadEnd(t, how) ==
    /\ side = "client"
    /\ Runnable(t) /\ tasks[t].pc = "reading"
    /\ LeaveTry(t, IF how = "exception"
                   THEN SendEvent(cliQueue, connections, main_loop,
                                  CliEvent("disconnect", tasks[t].uuid, "none", TRUE))
                   ELSE cliQueue, FALSE)
    /\ UNCHANGED <<side, auxVars, srvVars, frames, acks, cliCall, drvCall, cliRunning, cliHandlers, drvRunning, main_loop,
                   shutdown_event, connections, connection_tasks, opLog, connectAttempts>>

\* the reconnect wait is over: lines 390-396, then the loop head
WakeUp(t) ==
    /\ side = "client"
    /\ Runnable(t) /\ tasks[t].pc = "sleeping"
    /\ IF shutdown_event
       THEN /\ tasks' = [tasks EXCEPT ![t].pc = "done"]
            /\ UNCHANGED connection_states
       ELSE LoopHead(t, [tasks[t] EXCEPT !.delay = NextDelay(tasks[t].cfg, @)])
    /\ UNCHANGED <<side, auxVars, srvVars, frames, acks, cliCall, drvCall, cliRunning, cliQueue, cliHandlers, drvRunning,
                   main_loop, shutdown_event, connections, active_connections,
                   connection_tasks, drvStats, opLog, connectAttempts>>

\* a cancelled task is resumed with CancelledError: no except clause catches it,
\* the `finally` block runs when the task is inside the try block
TaskCancelled(t) ==
    /\ side = "client"
    /\ t \in DOMAIN tasks /\ tasks[t].cancelled /\ ~TaskDone(tasks[t])
    /\ tasks' = [tasks EXCEPT ![t].pc = "done"]
    /\ IF RunsFinally(tasks[t])
       THEN /\ active_connections' = ActiveAfterFinally(active_connections, tasks[t].uuid)
            /\ drvStats' = StatsAfterFinally(drvStats)
            /\ connection_states' = StatesAfterFinally(connection_states, tasks[t].uuid)
       ELSE UNCHANGED <<active_connections, drvStats, connection_states>>
    /\ UNCHANGED <<side, auxVars, srvVars, frames, acks, cliCall, drvCall, cliRunning, cliQueue, cliHandlers, drvRunning,
                   main_loop, shutdown_event, connections, connection_tasks, opLog,
                   connectAttempts>>

(***************************************************************************)
(* WebSocketClient.send_message and _find_connection_for_target            *)
(***************************************************************************)
NoCliCall == [pc |-> "idle", key |-> "none", platform |-> "none", found |-> "none",
              wrote |-> FALSE, result |-> FALSE]

\* the registered connections whose recorded state is "connected"
ConnectedIn(conns, states) ==
    {u \in DOMAIN conns : Get(states, u, "none") = "connected"}

\* a search that would not look at the connection state
FindCandidatesAnyState(conns, states, k, p) ==
    LET both == {u \in DOMAIN conns : conns[u].api_key = k /\ conns[u].platform = p}
        byKey == {u \in DOMAIN conns : conns[u].api_key = k}
        byPlatform == {u \in DOMAIN conns : conns[u].platform = p}
    IN  IF both # {} THEN both ELSE IF byKey # {} THEN byKey ELSE byPlatform

\* _find_connection_for_target: three passes over connections.items(), each
\* returning its first match; the result is the first match, in the dict's
\* order, of the first pass that has one, so it is one of the set given here
\* (the empty set: None)
FindCandidates(conns, states, k, p) ==
    LET live == ConnectedIn(conns, states)
        both == {u \in live : conns[u].api_key = k /\ conns[u].platform = p}
        byKey == {u \in live : conns[u].api_key = k}
        byPlatform == {u \in live : conns[u].platform = p}
    IN  IF both # {} THEN both ELSE IF byKey # {} THEN byKey ELSE byPlatform

\* send_message(message) for the target (api_key k, platform p): false when no
\* connection is found, otherwise the result of the driver's send_message,
\* which writes to the websocket recorded in active_connections
ClientSendMessage(k, p, out) ==
    /\ side = "client"
    /\ LET cands == FindCandidates(connections, connection_states, k, p)
           call == [NoCliCall EXCEPT !.pc = "returned", !.key = k, !.platform = p]
       IN  IF cands = {}
           THEN /\ cliCall' = call
                /\ UNCHANGED connection_states
           ELSE \E u \in cands :
                   LET active == u \in DOMAIN active_connections
                   IN  /\ cliCall' = [call EXCEPT !.found = u, !.wrote = active,
                                                  !.result = (active /\ out = "ok")]
                       /\ connection_states' =
                              IF active /\ out = "closed"
                              THEN Put(connection_states, u, "disconnected")
                              ELSE connection_states
    /\ cliCall' # cliCall
    /\ UNCHANGED <<side, auxVars, srvVars, frames, acks, drvCall, cliRunning, cliQueue, cliHandlers,
                   drvRunning, main_loop, shutdown_event, connections, active_connections,
                   connection_tasks, drvStats, tasks, opLog, connectAttempts>>

(***************************************************************************)
(* ClientNetworkDriver: refused operations and send_message                *)
(***************************************************************************)
\* wrote: a websocket.send was made; out: what it did
NoDrvCall == [op |-> "none", uuid |-> "none", result |-> FALSE, wrote |-> FALSE,
              out |-> "none"]

\* an early `return False` of a control operation
Refused(op, u) ==
    /\ side = "client"
    /\ drvCall' = [NoDrvCall EXCEPT !.op = op, !.uuid = u]
    /\ drvCall' # drvCall
    /\ UNCHANGED <<side, auxVars, srvVars, frames, acks, cliCall, cliRunning, cliQueue, cliHandlers,
                   drvRunning, main_loop, shutdown_event, connections, connection_states,
                   active_connections, connection_tasks, drvStats, tasks, opLog,
                   connectAttempts>>

\* add_connection(config) of a uuid that is registered already
AddConnectionRefused(u, cfg) == u \in DOMAIN connections /\ Refused("add", u)

\* connect(uuid) of a uuid that is not registered
ConnectRefused(u) == u \notin DOMAIN connections /\ Refused("connect", u)

\* disconnect(uuid) of a uuid that is not registered
DisconnectRefused(u) == u \notin DOMAIN connections /\ Refused("disconnect", u)

\* remove_connection(uuid) of a uuid that is not registered
RemoveConnectionRefused(u) == u \notin DOMAIN connections /\ Refused("remove", u)

\* _send_raw_message: `except ConnectionClosed` marks the state, `except
\* Exception` does not
StatesAfterSend(cs, ac, u, out) ==
    IF u \in DOMAIN ac /\ out = "closed" THEN Put(cs, u, "disconnected") ELSE cs

\* send_message(uuid, message) -> _send_raw_message: one websocket.send on the
\* websocket recorded in active_connections, if there is one
DrvSend(u, out) ==
    /\ side = "client"
    /\ LET active == u \in DOMAIN active_connections
       IN  drvCall' = [op |-> "send", uuid |-> u, result |-> (active /\ out = "ok"),
                       wrote |-> active, out |-> IF active THEN out ELSE "none"]
    /\ connection_states' = StatesAfterSend(connection_states, active_connections, u, out)
    /\ <<drvCall, connection_states>>' # <<drvCall, connection_states>>
    /\ UNCHANGED <<side, auxVars, srvVars, frames, acks, cliCall, cliRunning, cliQueue, cliHandlers,
                   drvRunning, main_loop, shutdown_event, connections, active_connections,
                   connection_tasks, drvStats, tasks, opLog, connectAttempts>>

(***************************************************************************)
(* WebSocketClient: start / stop and the dispatcher                        *)
(***************************************************************************)
\* WebSocketClient.start(): running is set, the driver is started (its worker
\* thread sets main_loop and running), the dispatcher task is created
CliStart ==
    /\ side = "client" /\ ~cliRunning
    /\ cliRunning' = TRUE
    /\ IF drvRunning
       THEN UNCHANGED <<drvRunning, main_loop>>
       ELSE drvRunning' = TRUE /\ main_loop' = TRUE
    /\ UNCHANGED <<side, auxVars, srvVars, frames, acks, cliCall, drvCall, cliQueue, cliHandlers, shutdown_event,
                   connections, connection_states, active_connections, connection_tasks,
                   drvStats, tasks, opLog, connectAttempts>>

\* the tasks ClientNetworkDriver.stop() cancels and awaits
StoppedTasks(ts, ct) ==
    [t \in DOMAIN ts |->
        IF (\E x \in DOMAIN ct : ct[x] = t) /\ ~TaskDone(ts[t])
        THEN [ts[t] EXCEPT !.pc = "done", !.cancelled = TRUE]
        ELSE ts[t]]

\* WebSocketClient.stop(): disconnect() of the main connection, the dispatcher
\* task is cancelled, then ClientNetworkDriver.stop(): the shutdown flag is set,
\* every recorded task is cancelled and awaited, the four tables are cleared and
\* the stats are reset
CliStop ==
    /\ side = "client" /\ cliRunning
    /\ cliRunning' = FALSE
    /\ cliHandlers' = <<>>
    /\ LET reg == MainUUID \in DOMAIN connections
           rec == reg /\ MainUUID \in DOMAIN connection_tasks
           tasksA == IF rec THEN CancelRequested(tasks, connection_tasks[MainUUID]) ELSE tasks
           ctA == IF reg THEN Del(connection_tasks, MainUUID) ELSE connection_tasks
           act == reg /\ MainUUID \in DOMAIN active_connections
       IN  IF drvRunning
           THEN /\ shutdown_event' = TRUE
                /\ drvRunning' = FALSE
                /\ tasks' = StoppedTasks(tasksA, ctA)
                /\ active_connections' = EmptyMap
                /\ connection_tasks' = EmptyMap
                /\ connection_states' = EmptyMap
                /\ connections' = EmptyMap
                /\ drvStats' = [current_connections |-> 0]
           ELSE /\ tasks' = tasksA
                /\ connection_tasks' = ctA
                /\ connection_states' = IF act
                                        THEN Put(connection_states, MainUUID, "disconnected")
                                        ELSE connection_states
                /\ active_connections' = IF act
                                         THEN Del(active_connections, MainUUID)
                                         ELSE active_connections
                /\ UNCHANGED <<shutdown_event, drvRunning, connections, drvStats>>
    /\ UNCHANGED <<side, auxVars, srvVars, frames, acks, cliCall, drvCall, cliQueue, main_loop, opLog, connectAttempts>>

\* `await self._handle_..._event(event)` in WebSocketClient._dispatcher_loop
ClientDispatcherReady == cliHandlers = <<>>

\* the business handler the client dispatcher invokes for an event, if any
ClientHandlerOf(ev) ==
    IF ev.type = "connect" THEN "on_connect"
    ELSE IF ev.type = "disconnect" THEN "on_disconnect"
    ELSE IF StartsWithSys(ev.mtype)
         THEN IF ev.mtype = "sys_std" THEN "on_message" ELSE "none"
         ELSE IF StartsWithCustom(ev.mtype) THEN CustomHandler(ev.mtype)
         ELSE "none"

\* the client dispatcher takes the next event and calls its handler
\* `self.connected = True` of _handle_connect_event (line 84) and
\* `self.connected = False` of _handle_disconnect_event (line 99), whatever
\* connection the event is of
ConnectedAfter(flag, ev) ==
    IF ev.type = "connect" THEN TRUE
    ELSE IF ev.type = "disconnect" THEN FALSE
    ELSE flag

CliDispatch ==
    /\ side = "client" /\ cliRunning /\ ClientDispatcherReady
    /\ cliQueue # <<>>
    /\ cliQueue' = RestOfQueue(cliQueue)
    /\ LET ev == NextEvent(cliQueue)
       IN  /\ cliHandlers' = IF ClientHandlerOf(ev) = "none"
                              THEN cliHandlers
                              ELSE Append(cliHandlers, Handler(ev, ClientHandlerOf(ev), "none"))
           /\ connected' = ConnectedAfter(connected, ev)
    /\ UNCHANGED <<side, raised, built, stdMsg, timeouts, starter, callbackBalance, srvVars, frames, acks, cliCall, drvCall, cliRunning, drvRunning, main_loop,
                   shutdown_event, connections, connection_states, active_connections,
                   connection_tasks, drvStats, tasks, opLog, connectAttempts>>

\* the awaited business callback returns or raises
\* WebSocketClient.connect() polling the driver's state of the main
\* connection (lines 245-256): it sets the flag when it reads "connected"
ClientConnectPoll ==
    /\ side = "client" /\ cliRunning
    /\ Get(connection_states, MainUUID, "none") = "connected"
    /\ ~connected
    /\ connected' = TRUE
    /\ UNCHANGED <<side, raised, built, stdMsg, timeouts, starter, callbackBalance, srvVars,
                   cliVars, frames>>

CliHandlerReturn(i) ==
    /\ side = "client"
    /\ i \in DOMAIN cliHandlers /\ cliHandlers[i].pc # "crashed"
    /\ cliHandlers' = RemoveAt(cliHandlers, i)
    /\ UNCHANGED <<side, auxVars, srvVars, frames, acks, cliCall, drvCall, cliRunning, cliQueue, drvRunning, main_loop,
                   shutdown_event, connections, connection_states, active_connections,
                   connection_tasks, drvStats, tasks, opLog, connectAttempts>>

\* a timeout whose cancelled get would have taken the event
QueueAfterTimeoutTaking(q) == IF q = <<>> THEN q ELSE RestOfQueue(q)

\* the queue after `except asyncio.TimeoutError: continue`: the get that
\* wait_for cancelled has taken nothing
QueueAfterTimeout(q) == q

\* the 1-second timeout of the dispatcher's get expires.  The queue may hold
\* an event by then: the producer's put ran on the worker thread after the
\* get found the queue empty, or its wake-up has not been run yet
CliGetTimeout ==
    /\ side = "client" /\ cliRunning /\ ClientDispatcherReady
    /\ timeouts < MaxTimeouts
    /\ timeouts' = timeouts + 1
    /\ cliQueue' = QueueAfterTimeout(cliQueue)
    /\ UNCHANGED <<side, srvVars, frames, raised, built, stdMsg, connected, callbackBalance, starter, acks, cliCall, drvCall,
                   cliRunning, cliHandlers, drvRunning, main_loop, shutdown_event, connections,
                   connection_states, active_connections, connection_tasks, drvStats, tasks,
                   opLog, connectAttempts>>

(***************************************************************************)
(* Exceptions of the business callbacks                                    *)
(***************************************************************************)
\* the business callbacks a dispatcher awaits outside _authenticate_connection
Callbacks == {"on_connect", "on_disconnect", "on_message"} \cup RegisteredCustom

\* a dispatcher that would guard its message callbacks only
RaiseCaughtMessagesOnly(cb) == cb \in {"on_message"} \cup RegisteredCustom

\* every callback is awaited inside `try: ... except Exception` of its handler,
\* and the handler inside the `except Exception` of the dispatcher loop
RaiseCaught(cb) == cb \in Callbacks

\* the handler invocations after callback i raised: the exception is logged
\* and the handler is over, or it ends the dispatcher task (pc "crashed",
\* which no step leaves)
AfterRaise(hs, i) ==
    IF RaiseCaught(hs[i].pc) THEN RemoveAt(hs, i)
    ELSE [hs EXCEPT ![i] = Handler(hs[i].ev, "crashed", "none")]

\* the callback the server dispatcher awaits raises an Exception
HandlerRaise(i) ==
    /\ side = "server"
    /\ i \in DOMAIN srvHandlers /\ srvHandlers[i].pc \in Callbacks
    /\ Len(raised) < MaxRaises
    /\ raised' = Append(raised, [cb |-> srvHandlers[i].pc, uuid |-> srvHandlers[i].ev.meta.uuid])
    /\ srvHandlers' = AfterRaise(srvHandlers, i)
    /\ UNCHANGED <<side, cliVars, srvRunning, user_connections, platform_connections,
                   connection_users, connection_metadata, srvStats, srvQueue,
                   srvCall, srvSockets, accepted, frames, built, stdMsg, timeouts,
                   connected, callbackBalance, starter>>

\* the callback the client dispatcher awaits raises an Exception
CliHandlerRaise(i) ==
    /\ side = "client"
    /\ i \in DOMAIN cliHandlers /\ cliHandlers[i].pc \in Callbacks
    /\ Len(raised) < MaxRaises
    /\ raised' = Append(raised, [cb |-> cliHandlers[i].pc, uuid |-> cliHandlers[i].ev.uuid])
    /\ cliHandlers' = AfterRaise(cliHandlers, i)
    /\ UNCHANGED <<side, srvVars, frames, acks, cliCall, drvCall, cliRunning, cliQueue,
                   drvRunning, main_loop, shutdown_event, connections, connection_states,
                   active_connections, connection_tasks, drvStats, tasks, opLog,
                   connectAttempts, built, stdMsg, timeouts, connected, callbackBalance, starter>>

(***************************************************************************)
(* ServerConfig / ClientConfig and the constructors                        *)
(***************************************************************************)
\* ServerConfig: the two authentication callbacks, "none" for None; the
\* default ServerConfig() has neither
ServerConfigs == [on_auth : {"none", "given"}, on_auth_extract_user : {"none", "given"}]

DefaultServerConfig == [on_auth |-> "none", on_auth_extract_user |-> "none"]

\* a url as its scheme prefix followed by the rest; <<>> is the empty string
URLs == {<<>>, <<"ws://", "h">>, <<"wss://", "h">>, <<"http://", "h">>, <<"h">>}

\* ClientConfig: url and api_key ("" is the empty string)
ClientConfigs == [url : URLs, api_key : {"", "k1"}]

\* str.startswith
StartsWith(url, prefix) == Len(url) > 0 /\ url[1] = prefix

\* ServerConfig.get_missing_fields
ServerMissing(cfg) ==
    IF cfg.on_auth_extract_user = "none" THEN {"on_auth_extract_user"} ELSE {}

\* a validation that would accept every server config
ServerValidateAlways(cfg) == TRUE

\* ServerConfig.validate
ServerValidate(cfg) == ServerMissing(cfg) = {}

\* ServerConfig.ensure_defaults, the two authentication callbacks
ServerEnsureDefaults(cfg) ==
    [on_auth |-> IF cfg.on_auth = "none" THEN "default_auth" ELSE cfg.on_auth,
     on_auth_extract_user |-> IF cfg.on_auth_extract_user = "none"
                              THEN "default_extract_user"
                              ELSE cfg.on_auth_extract_user]

\* the api_key of a handshake's metadata: absent, empty or a key
HandshakeKeys == {"absent", "", "k1"}

\* get_default_auth_handler: `api_key = metadata.get("api_key", "")`, accepted
\* iff it is truthy
DefaultAuth(k) == (IF k = "absent" THEN "" ELSE k) # ""

\* ClientConfig.get_missing_fields
ClientMissing(cfg) ==
    (IF cfg.url = <<>> THEN {"url"} ELSE {})
        \cup (IF cfg.api_key = "" THEN {"api_key"} ELSE {})

\* ClientConfig.validate
ClientValidate(cfg) ==
    /\ ClientMissing(cfg) = {}
    /\ StartsWith(cfg.url, "ws://") \/ StartsWith(cfg.url, "wss://")

\* a constructor call: its arguments, whether it raised ValueError, and the
\* authentication callbacks of the object's config
Construction(kind, srv, cli, ok, cfg) ==
    [kind |-> kind, srv |-> srv, cli |-> cli, raised |-> ~ok,
     config |-> IF ok THEN cfg ELSE DefaultServerConfig]

NoClientConfig == [url |-> <<>>, api_key |-> ""]

\* WebSocketServer(config): `config or ServerConfig()`, validate, ensure_defaults
NewServer(given, cfg) ==
    /\ side = "server"
    /\ Len(built) < MaxBuilt
    /\ LET c == IF given THEN cfg ELSE DefaultServerConfig
       IN  built' = Append(built, Construction("server", c, NoClientConfig,
                                               ServerValidate(c), ServerEnsureDefaults(c)))
    /\ UNCHANGED <<side, srvVars, cliVars, frames, raised, stdMsg, timeouts, connected, callbackBalance, starter>>

\* WebSocketClient(config): validate, ensure_defaults
NewClient(cfg) ==
    /\ side = "client"
    /\ Len(built) < MaxBuilt
    /\ built' = Append(built, Construction("client", DefaultServerConfig, cfg,
                                           ClientValidate(cfg), DefaultServerConfig))
    /\ UNCHANGED <<side, srvVars, cliVars, frames, raised, stdMsg, timeouts, connected, callbackBalance, starter>>

(***************************************************************************)
(* Standard messages: send_message and _handle_standard_message            *)
(***************************************************************************)
\* APIMessageBase: message_info, message_segment and message_dim
Messages ==
    [message_info : [platform : {"qq"}],
     message_segment : [type : {"text"}, data : {"hi"}],
     message_dim : [api_key : ApiKeys, platform : Platforms]]

\* the keys a payload is tested for
StructuredKeys == {"message_info", "message_segment"}

\* APIMessageBase.to_dict: a dict with the message's three parts under their
\* names
ToDict(m) ==
    [kind |-> "dict", has |-> {"message_info", "message_segment", "message_dim"},
     value |-> m]

\* APIMessageBase.from_dict: the message built from the three parts of the dict
FromDict(d) ==
    [message_info |-> d.value.message_info, message_segment |-> d.value.message_segment,
     message_dim |-> d.value.message_dim]

\* `"payload": message.to_dict()` of the sys_std envelope send_message builds
StdEnvelope(m) == [type |-> "sys_std", payload |-> ToDict(m)]

\* no message: the parts of a payload that is no dict of a message, and the
\* message of an on_message that was not called
NoMessage ==
    [message_info |-> [platform |-> "none"],
     message_segment |-> [type |-> "none", data |-> "none"],
     message_dim |-> [api_key |-> "none", platform |-> "none"]]

\* payloads a peer can put into a sys_std envelope that are no to_dict of a
\* message: JSON objects without the two keys or with one of them (has: the
\* names among its keys), strings and arrays (has: the names the string
\* contains, the array has as elements), numbers and null
ForeignPayloads ==
    [kind : {"dict"}, has : (SUBSET StructuredKeys) \ {StructuredKeys}, value : {NoMessage}]
        \cup [kind : {"string", "list"}, has : SUBSET StructuredKeys, value : {NoMessage}]
        \cup [kind : {"number", "null"}, has : {{}}, value : {NoMessage}]

\* `name in payload`: a key of a dict, a substring of a string, an element of
\* a list; TypeError for a number or null
InRaises(payload) == payload.kind \in {"number", "null"}

In(name, payload) == name \in payload.has

\* str(payload)
Str(payload) ==
    IF payload.kind = "dict" THEN "{...}"
    ELSE IF payload.kind = "string" THEN "text"
    ELSE IF payload.kind = "list" THEN "[...]"
    ELSE IF payload.kind = "number" THEN "42"
    ELSE "None"

\* the message built around a payload that is not in the structured format
Wrapped(payload, plat, key) ==
    [message_info |-> [platform |-> plat],
     message_segment |-> [type |-> "text", data |-> Str(payload)],
     message_dim |-> [api_key |-> key, platform |-> plat]]

\* a decoding that would wrap whatever is not a dict with the two keys
DecodedLeniently(payload, plat, key) ==
    IF payload.kind = "dict" /\ StructuredKeys \subseteq payload.has
    THEN [called |-> TRUE, message |-> FromDict(payload)]
    ELSE [called |-> TRUE, message |-> Wrapped(payload, plat, key)]

\* _handle_standard_message for a connection of platform plat and api key
\* key: whether on_message is called, and with which message.  The test
\* raises for a number or null, and from_dict for what is no dict; the outer
\* `except Exception` logs it and on_message is not called
Decoded(payload, plat, key) ==
    IF InRaises(payload) THEN [called |-> FALSE, message |-> NoMessage]
    ELSE IF In("message_info", payload) /\ In("message_segment", payload)
    THEN IF payload.kind = "dict"
         THEN [called |-> TRUE, message |-> FromDict(payload)]
         ELSE [called |-> FALSE, message |-> NoMessage]
    ELSE [called |-> TRUE, message |-> Wrapped(payload, plat, key)]

\* a sys_std envelope with this payload is handled on a connection of
\* platform plat and api key key
HandleStandardMessage(payload, plat, key) ==
    /\ Len(stdMsg) < MaxStd
    /\ LET r == Decoded(payload, plat, key)
       IN  stdMsg' = Append(stdMsg, [payload |-> payload, platform |-> plat, api_key |-> key,
                                     called |-> r.called, message |-> r.message])
    /\ UNCHANGED <<side, srvVars, cliVars, frames, raised, built, timeouts, connected, callbackBalance, starter>>

\* send_message(m) on one side, _handle_standard_message on the other
StandardRoundTrip(m, plat, key) == HandleStandardMessage(StdEnvelope(m).payload, plat, key)

\* a sys_std envelope of a peer with another payload
StandardForeign(payload, plat, key) == HandleStandardMessage(payload, plat, key)

(***************************************************************************)
(* start() of the driver, the client and the server                        *)
(***************************************************************************)
\* calls: start() calls so far; noops: those that returned at once; spawned:
\* worker threads started that have not run their first statements yet;
\* workers: worker threads alive; sleeping: WebSocketClient.start calls that
\* await driver.start; cliTasks, srvTasks: dispatcher tasks alive
NoStarts == [calls |-> 0, noops |-> 0, spawned |-> 0, workers |-> 0, sleeping |-> 0,
             cliTasks |-> 0, srvTasks |-> 0]

\* `if self.running: return` of ClientNetworkDriver.start: running is set by
\* the worker thread, not by start()
DriverStarted(run) == run

\* ClientNetworkDriver.start up to its sleep: a started driver returns at
\* once, otherwise a worker thread is created and started
DriverStartSpawn(st) ==
    IF DriverStarted(drvRunning)
    THEN st
    ELSE [st EXCEPT !.spawned = @ + 1, !.workers = @ + 1]

\* ClientNetworkDriver.start() is called
DrvStartCall ==
    /\ side = "client"
    /\ starter.calls < MaxStarts
    /\ LET st == [starter EXCEPT !.calls = @ + 1]
       IN  starter' = IF DriverStarted(drvRunning)
                      THEN [st EXCEPT !.noops = @ + 1]
                      ELSE DriverStartSpawn(st)
    /\ UNCHANGED <<side, srvVars, cliVars, frames, raised, built, stdMsg, timeouts, connected, callbackBalance>>

\* _worker_loop_run: the thread sets event_queue, main_loop and running
WorkerLoopRun ==
    /\ side = "client"
    /\ starter.spawned > 0
    /\ starter' = [starter EXCEPT !.spawned = @ - 1]
    /\ drvRunning' = TRUE
    /\ main_loop' = TRUE
    /\ UNCHANGED <<side, srvVars, frames, raised, built, stdMsg, timeouts, connected, callbackBalance, acks,
                   cliCall, drvCall, cliRunning, cliQueue, cliHandlers, shutdown_event,
                   connections, connection_states, active_connections, connection_tasks,
                   drvStats, tasks, opLog, connectAttempts>>

\* WebSocketClient.start() is called: a running client returns at once,
\* otherwise running is set and the driver's start() is awaited
CliStartCall ==
    /\ side = "client"
    /\ starter.calls < MaxStarts
    /\ LET st == [starter EXCEPT !.calls = @ + 1]
       IN  IF cliRunning
           THEN /\ starter' = [st EXCEPT !.noops = @ + 1]
                /\ UNCHANGED cliRunning
           ELSE /\ starter' = [DriverStartSpawn(st) EXCEPT !.sleeping = @ + 1]
                /\ cliRunning' = TRUE
    /\ UNCHANGED <<side, srvVars, frames, raised, built, stdMsg, timeouts, connected, callbackBalance, acks,
                   cliCall, drvCall, cliQueue, cliHandlers, drvRunning, main_loop,
                   shutdown_event, connections, connection_states, active_connections,
                   connection_tasks, drvStats, tasks, opLog, connectAttempts>>

\* the driver's start() has returned: the dispatcher task is created
CliStartDispatcher ==
    /\ side = "client"
    /\ starter.sleeping > 0
    /\ starter' = [starter EXCEPT !.sleeping = @ - 1, !.cliTasks = @ + 1]
    /\ UNCHANGED <<side, srvVars, cliVars, frames, raised, built, stdMsg, timeouts, connected, callbackBalance>>

\* WebSocketServer.start() is called: a running server returns at once,
\* otherwise running is set and the dispatcher task is created
SrvStartCall ==
    /\ side = "server"
    /\ starter.calls < MaxStarts
    /\ LET st == [starter EXCEPT !.calls = @ + 1]
       IN  IF srvRunning
           THEN /\ starter' = [st EXCEPT !.noops = @ + 1]
                /\ UNCHANGED srvRunning
           ELSE /\ starter' = [st EXCEPT !.srvTasks = @ + 1]
                /\ srvRunning' = TRUE
    /\ UNCHANGED <<side, cliVars, frames, raised, built, stdMsg, timeouts, connected, callbackBalance,
                   user_connections, platform_connections, connection_users,
                   connection_metadata, srvStats, srvQueue, srvHandlers, srvCall,
                   srvSockets, accepted>>

(***************************************************************************)
(* Specifications                                                          *)
(***************************************************************************)
InitServer ==
    /\ srvRunning = FALSE
    /\ user_connections = EmptyMap
    /\ platform_connections = EmptyMap
    /\ connection_users = EmptyMap
    /\ connection_metadata = EmptyMap
    /\ srvStats = [current_users |-> 0, current_connections |-> 0]
    /\ srvQueue = <<>>
    /\ srvHandlers = <<>>
    /\ srvCall = NoCall
    /\ srvSockets = {}
    /\ accepted = 0

InitClient ==
    /\ cliRunning = FALSE
    /\ cliQueue = <<>>
    /\ cliHandlers = <<>>
    /\ drvRunning = FALSE
    /\ main_loop = FALSE
    /\ shutdown_event = FALSE
    /\ connections = EmptyMap
    /\ connection_states = EmptyMap
    /\ active_connections = EmptyMap
    /\ connection_tasks = EmptyMap
    /\ drvStats = [current_connections |-> 0]
    /\ tasks = <<>>
    /\ opLog = <<>>
    /\ connectAttempts = 0
    /\ acks = <<>>
    /\ cliCall = NoCliCall
    /\ drvCall = NoDrvCall

Init ==
    /\ InitServer /\ InitClient /\ frames = 0
    /\ raised = <<>> /\ built = <<>> /\ stdMsg = <<>> /\ timeouts = 0
    /\ connected = FALSE /\ starter = NoStarts
    /\ callbackBalance = [c \in UUIDs |-> 0]

\* the server's registry under connects, disconnects and the business API
NextServer ==
    \/ \E m \in Meta : SrvAccept(m)
    \/ \E m \in Meta : SrvClose(m)
    \/ DispatchConnect
    \/ \E i \in DOMAIN srvHandlers, o \in AuthOutcomes : ConnectAuthReturn(i, o)
    \/ DispatchDisconnect
    \/ \E i \in DOMAIN srvHandlers : HandlerReturn(i)
    \/ \E k \in ApiKeys, p \in Platforms : SendMessageCall(k, p)
    \/ \E o \in {"ok", "raise"} : SendResolve(o)
    \/ \E p \in Platforms : BroadcastCall(p)
    \/ \E c \in UUIDs : CallWrite(c)
    \/ CallReturn
    \/ CallRaise
    \/ SrvStart
    \/ SrvStop

\* the program is a server
InitOnServer == side = "server" /\ Init

SpecServer == InitOnServer /\ [][NextServer]_vars

\* the frame the main connection receives: a standard message without msg_id
ClientFrames == {f \in ObjectFrames : f.mtype = "sys_std" /\ f.mid = "none"}

\* the client driver's control operations and the lifecycle tasks of the main
\* connection
NextClient ==
    \/ \E cfg \in Configs : AddConnection(MainUUID, cfg)
    \/ \E sameLoop \in BOOLEAN : Connect(MainUUID, sameLoop)
    \/ Disconnect(MainUUID)
    \/ RemoveConnection(MainUUID)
    \/ \E t \in DOMAIN tasks : TaskBegin(t)
    \/ \E t \in DOMAIN tasks : ConnectSucceed(t)
    \/ \E t \in DOMAIN tasks : ConnectFail(t)
    \/ \E t \in DOMAIN tasks, f \in ClientFrames : ReadFrame(t, f, "ok")
    \/ \E t \in DOMAIN tasks, how \in ReadEnds : ReadEnd(t, how)
    \/ \E t \in DOMAIN tasks : WakeUp(t)
    \/ \E t \in DOMAIN tasks : TaskCancelled(t)
    \/ CliStart
    \/ CliStop

\* the program is a client
InitOnClient == side = "client" /\ Init

SpecClient == InitOnClient /\ [][NextClient]_vars

\* the config the connections of the dispatcher's specification are added with
DispatchConfigs == ConfigsOf({"k1"}, {"qq"}, {1}, {30})

\* the read loop of the main connection under every kind of frame and every
\* outcome of the acknowledgement's send, with connect and disconnect calls
NextFrames ==
    \/ \E cfg \in DispatchConfigs : AddConnection(MainUUID, cfg)
    \/ \E sameLoop \in BOOLEAN : Connect(MainUUID, sameLoop)
    \/ Disconnect(MainUUID)
    \/ \E t \in DOMAIN tasks : TaskBegin(t)
    \/ \E t \in DOMAIN tasks : ConnectSucceed(t)
    \/ \E t \in DOMAIN tasks, f \in Frames, out \in SendOutcomes : ReadFrame(t, f, out)
    \/ \E t \in DOMAIN tasks, how \in ReadEnds : ReadEnd(t, how)
    \/ \E t \in DOMAIN tasks : WakeUp(t)
    \/ \E t \in DOMAIN tasks : TaskCancelled(t)
    \/ CliStart

SpecFrames == InitOnClient /\ [][NextFrames]_vars

\* envelopes of every type, none of which asks for an acknowledgement
DispatchTypes == {"sys_std", "custom_a", "sys_ack"}

DispatchFrames == {f \in ObjectFrames : f.mid = "none" /\ f.mtype \in DispatchTypes}

\* both dispatchers with every kind of event (connects, disconnects, frames of
\* every type) produced by several connections
NextDispatch ==
    \/ \E m \in Meta : SrvAccept(m)
    \/ \E m \in Meta, mt \in DispatchTypes : SrvReceive(m, mt)
    \/ \E m \in Meta : SrvClose(m)
    \/ DispatchConnect
    \/ \E i \in DOMAIN srvHandlers, o \in AuthOutcomes : ConnectAuthReturn(i, o)
    \/ DispatchDisconnect
    \/ DispatchMessage
    \/ \E i \in DOMAIN srvHandlers : HandlerReturn(i)
    \/ SrvStart
    \/ SrvStop
    \/ \E u \in CliUUIDs, cfg \in DispatchConfigs : AddConnection(u, cfg)
    \/ \E u \in CliUUIDs : Connect(u, FALSE)
    \/ \E t \in DOMAIN tasks : TaskBegin(t)
    \/ \E t \in DOMAIN tasks : ConnectSucceed(t)
    \/ \E t \in DOMAIN tasks : ConnectFail(t)
    \/ \E t \in DOMAIN tasks, f \in DispatchFrames : ReadFrame(t, f, "ok")
    \/ \E t \in DOMAIN tasks, how \in ReadEnds : ReadEnd(t, how)
    \/ \E t \in DOMAIN tasks : WakeUp(t)
    \/ CliStart
    \/ CliStop
    \/ CliDispatch
    \/ \E i \in DOMAIN cliHandlers : CliHandlerReturn(i)

\* the program is a server or a client
InitOnEither == side \in {"server", "client"} /\ Init

SpecDispatch == InitOnEither /\ [][NextDispatch]_vars

\* one connection of each side
ClassifyMeta == {m \in Meta : m.uuid = "c1" /\ m.api_key = "k1" /\ m.platform = "qq"}

\* envelopes of every type, without msg_id
ClassifyFrames == {f \in ObjectFrames : f.mid = "none"}

\* both dispatchers under Message events of every envelope type, from one
\* connection each
NextClassify ==
    \/ SrvStart
    \/ \E m \in ClassifyMeta : SrvAccept(m)
    \/ \E m \in ClassifyMeta, mt \in MsgTypes : SrvReceive(m, mt)
    \/ DispatchConnect
    \/ \E i \in DOMAIN srvHandlers : ConnectAuthReturn(i, "ok")
    \/ DispatchMessage
    \/ \E i \in DOMAIN srvHandlers : HandlerReturn(i)
    \/ \E cfg \in DispatchConfigs : AddConnection(MainUUID, cfg)
    \/ Connect(MainUUID, FALSE)
    \/ CliStart
    \/ \E t \in DOMAIN tasks : TaskBegin(t)
    \/ \E t \in DOMAIN tasks : ConnectSucceed(t)
    \/ \E t \in DOMAIN tasks, f \in ClassifyFrames : ReadFrame(t, f, "ok")
    \/ CliDispatch
    \/ \E i \in DOMAIN cliHandlers : CliHandlerReturn(i)

SpecClassify == InitOnEither /\ [][NextClassify]_vars

\* the driver's control operations on registered and unregistered uuids, and
\* its send_message
NextControl ==
    \/ \E u \in CliUUIDs, cfg \in DispatchConfigs : AddConnection(u, cfg)
    \/ \E u \in CliUUIDs, cfg \in DispatchConfigs : AddConnectionRefused(u, cfg)
    \/ \E u \in CliUUIDs, sameLoop \in BOOLEAN : Connect(u, sameLoop)
    \/ \E u \in CliUUIDs : ConnectRefused(u)
    \/ \E u \in CliUUIDs : Disconnect(u)
    \/ \E u \in CliUUIDs : DisconnectRefused(u)
    \/ \E u \in CliUUIDs : RemoveConnection(u)
    \/ \E u \in CliUUIDs : RemoveConnectionRefused(u)
    \/ \E u \in CliUUIDs, out \in SendOutcomes : DrvSend(u, out)
    \/ \E t \in DOMAIN tasks : TaskBegin(t)
    \/ \E t \in DOMAIN tasks : ConnectSucceed(t)
    \/ CliStart

SpecControl == InitOnClient /\ [][NextControl]_vars

\* connections of one api key and platform
RaiseMeta == {m \in Meta : m.api_key = "k1" /\ m.platform = "qq"}

\* envelopes that reach a callback
RaiseTypes == {"sys_std", "custom_a"}

\* both dispatchers with callbacks that return or raise
NextRaise ==
    \/ SrvStart
    \/ \E m \in RaiseMeta : SrvAccept(m)
    \/ \E m \in RaiseMeta, mt \in RaiseTypes : SrvReceive(m, mt)
    \/ \E m \in RaiseMeta : SrvClose(m)
    \/ DispatchConnect
    \/ \E i \in DOMAIN srvHandlers, o \in AuthOutcomes : ConnectAuthReturn(i, o)
    \/ DispatchDisconnect
    \/ DispatchMessage
    \/ \E i \in DOMAIN srvHandlers : HandlerReturn(i)
    \/ \E i \in DOMAIN srvHandlers : HandlerRaise(i)
    \/ \E u \in CliUUIDs, cfg \in DispatchConfigs : AddConnection(u, cfg)
    \/ \E u \in CliUUIDs : Connect(u, FALSE)
    \/ CliStart
    \/ \E t \in DOMAIN tasks : TaskBegin(t)
    \/ \E t \in DOMAIN tasks : ConnectSucceed(t)
    \/ \E t \in DOMAIN tasks, f \in ObjectFrames :
          f.mtype \in RaiseTypes /\ f.mid = "none" /\ ReadFrame(t, f, "ok")
    \/ \E t \in DOMAIN tasks : ReadEnd(t, "closed_error")
    \/ CliDispatch
    \/ \E i \in DOMAIN cliHandlers : CliHandlerReturn(i)
    \/ \E i \in DOMAIN cliHandlers : CliHandlerRaise(i)

SpecRaise == InitOnEither /\ [][NextRaise]_vars

\* the events of two connections, put by their lifecycle tasks and taken by
\* the dispatcher whose get times out
NextQueue ==
    \/ \E u \in CliUUIDs, cfg \in DispatchConfigs : AddConnection(u, cfg)
    \/ \E u \in CliUUIDs : Connect(u, FALSE)
    \/ \E t \in DOMAIN tasks : TaskBegin(t)
    \/ \E t \in DOMAIN tasks : ConnectSucceed(t)
    \/ \E t \in DOMAIN tasks, f \in ClientFrames : ReadFrame(t, f, "ok")
    \/ \E t \in DOMAIN tasks : ReadEnd(t, "exception")
    \/ CliStart
    \/ CliStop
    \/ CliDispatch
    \/ CliGetTimeout
    \/ \E i \in DOMAIN cliHandlers : CliHandlerReturn(i)

\* the event loop of the business side runs the dispatcher task, and the
\* awaited callbacks return
SpecQueue ==
    /\ InitOnClient /\ [][NextQueue]_vars
    /\ WF_vars(CliDispatch)
    /\ WF_vars(\E i \in DOMAIN cliHandlers : CliHandlerReturn(i))

\* connections that come and go while the server runs and its dispatcher
\* registers and removes them
NextStale ==
    \/ \E m \in Meta : SrvAccept(m)
    \/ \E m \in Meta : SrvClose(m)
    \/ DispatchConnect
    \/ \E i \in DOMAIN srvHandlers, o \in AuthOutcomes : ConnectAuthReturn(i, o)
    \/ DispatchDisconnect
    \/ \E i \in DOMAIN srvHandlers : HandlerReturn(i)
    \/ SrvStart

\* the event loop runs the dispatcher task, and the callbacks it awaits return
SpecStale ==
    /\ InitOnServer /\ [][NextStale]_vars
    /\ WF_vars(DispatchConnect)
    /\ WF_vars(DispatchDisconnect)
    /\ WF_vars(\E i \in DOMAIN srvHandlers, o \in AuthOutcomes : ConnectAuthReturn(i, o))
    /\ WF_vars(\E i \in DOMAIN srvHandlers : HandlerReturn(i))

\* the client with its main connection and a second managed connection: the
\* driver's operations, the lifecycle tasks and the dispatcher
NextFlag ==
    \/ \E u \in CliUUIDs, cfg \in DispatchConfigs : AddConnection(u, cfg)
    \/ \E u \in CliUUIDs, sameLoop \in BOOLEAN : Connect(u, sameLoop)
    \/ \E u \in CliUUIDs : Disconnect(u)
    \/ \E t \in DOMAIN tasks : TaskBegin(t)
    \/ \E t \in DOMAIN tasks : ConnectSucceed(t)
    \/ \E t \in DOMAIN tasks, how \in ReadEnds : ReadEnd(t, how)
    \/ \E t \in DOMAIN tasks : TaskCancelled(t)
    \/ CliStart
    \/ CliDispatch
    \/ \E i \in DOMAIN cliHandlers : CliHandlerReturn(i)
    \/ ClientConnectPoll

SpecFlag == InitOnClient /\ [][NextFlag]_vars

\* start() called again and again on the driver, the client and the server,
\* while connections are accepted or added
NextStart ==
    \/ DrvStartCall
    \/ WorkerLoopRun
    \/ CliStartCall
    \/ CliStartDispatcher
    \/ SrvStartCall
    \/ \E m \in Meta : SrvAccept(m)
    \/ \E u \in CliUUIDs, cfg \in DispatchConfigs : AddConnection(u, cfg)

SpecStart == InitOnEither /\ [][NextStart]_vars

\* standard messages of either side, decoded on a connection of the other
NextStd ==
    \/ \E m \in Messages, plat \in Platforms, key \in {"k1"} : StandardRoundTrip(m, plat, key)
    \/ \E f \in ForeignPayloads, plat \in Platforms, key \in {"k1"} :
          StandardForeign(f, plat, key)

SpecStd == InitOnEither /\ [][NextStd]_vars

\* constructions of servers and clients from every configuration
NextConfig ==
    \/ \E given \in BOOLEAN, cfg \in ServerConfigs : NewServer(given, cfg)
    \/ \E cfg \in ClientConfigs : NewClient(cfg)

SpecConfig == InitOnEither /\ [][NextConfig]_vars

\* the server's registry under connects, and send_custom_message
NextCustom ==
    \/ SrvStart
    \/ \E m \in Meta : SrvAccept(m)
    \/ DispatchConnect
    \/ \E i \in DOMAIN srvHandlers : ConnectAuthReturn(i, "ok")
    \/ \E i \in DOMAIN srvHandlers : HandlerReturn(i)
    \/ \E T \in CustomNames, cu \in UUIDs \cup {"none"}, tu \in Users \cup {"none"},
          tp \in Platforms \cup {"none"} : SendCustomCall(T, cu, tu, tp)

SpecCustom == InitOnServer /\ [][NextCustom]_vars

\* connections of every api key and platform
FindConfigs == ConfigsOf(ApiKeys, Platforms, {1}, {30})

\* the client's send_message over connection tables of several connections in
\* every state
NextFind ==
    \/ \E u \in CliUUIDs, cfg \in FindConfigs : AddConnection(u, cfg)
    \/ \E u \in CliUUIDs : Connect(u, FALSE)
    \/ CliStart
    \/ \E t \in DOMAIN tasks : TaskBegin(t)
    \/ \E t \in DOMAIN tasks : ConnectSucceed(t)
    \/ \E t \in DOMAIN tasks : ReadEnd(t, "closed_ok")
    \/ \E k \in ApiKeys, p \in Platforms, out \in {"ok", "error"} : ClientSendMessage(k, p, out)

SpecFind == InitOnClient /\ [][NextFind]_vars

(***************************************************************************)
(* Properties of the server: registry, authentication, send, stop          *)
(***************************************************************************)
RegistryTables == <<user_connections, platform_connections, connection_users,
                    connection_metadata>>

\* C1: in every state the dispatcher leaves, connection_users[c] = u iff u is a
\* key of user_connections and c is in user_connections[u][p] for the platform
\* p recorded in connection_metadata[c]; and platform_connections[p] is the
\* union over all users u of user_connections[u][p]
RegistryInvariant ==
    /\ \A c \in UUIDs, u \in Users :
          (c \in DOMAIN connection_users /\ connection_users[c] = u)
          <=> /\ u \in DOMAIN user_connections
              /\ c \in DOMAIN connection_metadata
              /\ connection_metadata[c].platform \in DOMAIN user_connections[u]
              /\ c \in user_connections[u][connection_metadata[c].platform]
    /\ \A p \in Platforms :
          Get(platform_connections, p, {}) =
              UNION {Get(user_connections[u], p, {}) : u \in DOMAIN user_connections}

\* the connections a step of the business API call writes to
WrittenTo ==
    IF srvCall'.pc # "iter" THEN {}
    ELSE IF srvCall.pc = "iter"
         THEN DOMAIN srvCall'.results \ DOMAIN srvCall.results
         ELSE DOMAIN srvCall'.results

\* the accepted connections a write to uuid c can reach
Receivers(c) == {s \in srvSockets : s.uuid = c}

\* C6: send_message for (api_key k, platform p), k mapping to user U, attempts
\* delivery only to connections of U on platform p: every registered connection
\* it writes to is recorded as a connection of user U, on platform p
SendReachesOnlyUserPlatform ==
    [][srvCall'.kind = "send" =>
          \A c \in WrittenTo \cap DOMAIN connection_users :
              /\ connection_users[c] = ExtractUser(srvCall'.key)
              /\ connection_metadata[c].platform = srvCall'.platform]_vars

\* C7: broadcast_message(message, platform=p) attempts delivery only to
\* connections whose platform is p: every registered connection it writes to is
\* recorded on platform p
BroadcastReachesOnlyPlatform ==
    [][srvCall'.kind = "bcast" =>
          \A c \in WrittenTo \cap DOMAIN connection_metadata :
              connection_metadata[c].platform = srvCall'.platform]_vars

\* the user of api key k has no registry entry, or none on platform p
NoRecipient(k, p) ==
    \/ ExtractUser(k) \notin DOMAIN user_connections
    \/ p \notin DOMAIN user_connections[ExtractUser(k)]

\* C8: when the resolved user has no registry entry or no connection on the
\* target platform, send_message returns an empty result map without raising,
\* writes to no connection and leaves the registry unchanged
SendWithoutRecipientReturnsEmpty ==
    [][(/\ srvCall.kind = "send"
        /\ srvCall.pc = "extract"
        /\ srvCall'.pc # "extract"
        /\ NoRecipient(srvCall.key, srvCall.platform))
       => /\ srvCall'.pc = "returned"
          /\ srvCall'.results = EmptyMap
          /\ UNCHANGED RegistryTables
          /\ UNCHANGED srvSockets]_vars

\* C8 witness: a send to a user who is registered, but not on the target
\* platform, has returned with an empty result map
SendWithoutRecipientReturned ==
    /\ srvCall.kind = "send"
    /\ srvCall.pc = "returned"
    /\ srvCall.results = EmptyMap
    /\ ExtractUser(srvCall.key) \in DOMAIN user_connections
    /\ srvCall.platform \notin DOMAIN user_connections[ExtractUser(srvCall.key)]

\* C9: a stop() called while connections are registered leaves the stat
\* current_connections at 0 and the four registry maps empty
StopLeavesRegistryEmpty ==
    [][(srvRunning /\ ~srvRunning' /\ DOMAIN connection_users # {})
       => /\ srvStats'.current_connections = 0
          /\ DOMAIN user_connections' = {}
          /\ DOMAIN platform_connections' = {}
          /\ DOMAIN connection_users' = {}
          /\ DOMAIN connection_metadata' = {}]_vars

AuthFailures == {"auth_false", "auth_raise", "extract_empty", "extract_raise"}

BeginsInOrder(q, q2, ev, sameConn(_, _)) ==
    \E k \in DOMAIN q :
        /\ q[k] = ev
        /\ q2 = RemoveAt(q, k)
        /\ \A j \in 1..(k - 1) : ~sameConn(q[j], ev)

SameMeta(e1, e2) == e1.meta.uuid = e2.meta.uuid

SameUUID(e1, e2) == e1.uuid = e2.uuid

\* C2: neither dispatcher is ever inside two business handlers, and a handler
\* begins only when no handler is in progress and no earlier event of the same
\* connection is still queued, however many connections produce events
DispatcherSerializesHandlers ==
    /\ [](Len(srvHandlers) <= 1 /\ Len(cliHandlers) <= 1)
    /\ [][/\ Len(srvHandlers') > Len(srvHandlers)
             => /\ srvHandlers = <<>>
                /\ BeginsInOrder(srvQueue, srvQueue', srvHandlers'[1].ev, SameMeta)
          /\ Len(cliHandlers') > Len(cliHandlers)
             => /\ cliHandlers = <<>>
                /\ BeginsInOrder(cliQueue, cliQueue', cliHandlers'[1].ev, SameUUID)]_vars

\* C2 witness: the server dispatcher is inside a handler while a later event of
\* the same connection and an event of another connection wait in the queue
HandlerRunsWhileEventsWait ==
    /\ Len(srvHandlers) = 1
    /\ \E j \in DOMAIN srvQueue : srvQueue[j].meta.uuid = srvHandlers[1].ev.meta.uuid
    /\ \E j \in DOMAIN srvQueue : srvQueue[j].meta.uuid # srvHandlers[1].ev.meta.uuid

(***************************************************************************)
(* Properties of the client driver                                         *)
(***************************************************************************)
\* the four calls of the sequence, each of which returned true
AddConnectDisconnectRemove ==
    <<[op |-> "add", uuid |-> MainUUID], [op |-> "connect", uuid |-> MainUUID],
      [op |-> "disconnect", uuid |-> MainUUID], [op |-> "remove", uuid |-> MainUUID]>>

\* no task can take a step of its own: each is over, or waits in its read loop
\* for the peer
Quiesced ==
    \A t \in DOMAIN tasks :
        \/ TaskDone(tasks[t])
        \/ tasks[t].pc = "reading" /\ ~tasks[t].cancelled

\* C3: after add_connection -> connect -> disconnect -> remove_connection, once
\* remove_connection has returned and the system has quiesced, no table has an
\* entry for the uuid and no lifecycle task of the uuid is alive
RemovedConnectionLeavesNothing ==
    (opLog = AddConnectDisconnectRemove /\ Quiesced)
    => /\ MainUUID \notin DOMAIN connections
       /\ MainUUID \notin DOMAIN connection_states
       /\ MainUUID \notin DOMAIN active_connections
       /\ MainUUID \notin DOMAIN connection_tasks
       /\ \A t \in DOMAIN tasks : tasks[t].uuid = MainUUID => TaskDone(tasks[t])

\* a connect attempt of task t fails in this step
AttemptFails(t) ==
    /\ t \in DOMAIN tasks'
    /\ tasks'[t].fails = tasks[t].fails + 1
    /\ drvRunning /\ ~shutdown_event
    /\ tasks[t].uuid \in DOMAIN connections

GivesUp(t) ==
    /\ tasks'[t].pc = "done"
    /\ connection_states'[tasks[t].uuid] = "error"

\* C4 as stated: the failure that makes max_reconnect_attempts consecutive
\* failed attempts leaves the state 'error' and ends the task
ErrorAfterMaxFailures ==
    [][\A t \in DOMAIN tasks :
          (AttemptFails(t) /\ tasks'[t].fails = tasks[t].cfg.max_reconnect_attempts)
          => GivesUp(t)]_vars

\* the number of consecutive failed attempts after which the loop gives up: the
\* first attempt of a task is not a reconnect
FailuresToGiveUp(tk) ==
    tk.cfg.max_reconnect_attempts + (IF tk.succeeded THEN 0 ELSE 1)

\* C4: with the driver running, the connection registered and no shutdown, a
\* failed attempt ends the task in state 'error' exactly when it is the
\* (max_reconnect_attempts + 1)-th consecutive failure of a task that never
\* connected, or the max_reconnect_attempts-th after an established session;
\* an earlier failure is followed by a reconnect wait; an ended task makes no
\* further step
ErrorAfterMaxReconnects ==
    /\ [][\A t \in DOMAIN tasks :
             AttemptFails(t)
             => IF tasks'[t].fails = FailuresToGiveUp(tasks[t])
                THEN GivesUp(t)
                ELSE tasks'[t].pc = "sleeping" /\ tasks'[t].fails < FailuresToGiveUp(tasks[t])]_vars
    /\ [][\A t \in DOMAIN tasks : TaskDone(tasks[t]) => tasks'[t] = tasks[t]]_vars

\* C4 witness: a task that never connected has ended in state 'error' after
\* max_reconnect_attempts + 1 failed attempts
GaveUpAfterMaxReconnects ==
    \E t \in DOMAIN tasks :
        /\ TaskDone(tasks[t])
        /\ ~tasks[t].succeeded
        /\ tasks[t].fails = tasks[t].cfg.max_reconnect_attempts + 1
        /\ tasks[t].uuid \in DOMAIN connection_states
        /\ connection_states[tasks[t].uuid] = "error"

\* d[i] of the claimed sequence: d[0] = reconnect_delay,
\* d[i+1] = min(max_reconnect_delay, 2 * d[i])
RECURSIVE BackoffDelay(_, _)
BackoffDelay(cfg, i) ==
    IF i = 0 THEN cfg.reconnect_delay
    ELSE Min(cfg.max_reconnect_delay, 2 * BackoffDelay(cfg, i - 1))

\* C5: the i-th reconnect wait since the last successful connect (or the task's
\* start) lasts d[i], and a successful connect resets the delay to d0 and the
\* attempt counter to 0
WaitsFollowBackoff ==
    [][\A t \in DOMAIN tasks :
          /\ (tasks[t].pc # "sleeping" /\ tasks'[t].pc = "sleeping")
             => tasks'[t].wait = BackoffDelay(tasks[t].cfg, tasks[t].streak)
          /\ (tasks[t].pc = "connecting" /\ tasks'[t].pc = "reading")
             => /\ tasks'[t].attempts = 0
                /\ tasks'[t].delay = tasks[t].cfg.reconnect_delay]_vars

\* the lifecycle tasks of uuid u that are alive and not cancelled
LiveTasks(u) == {t \in DOMAIN tasks : tasks[t].uuid = u /\ Runnable(t)}

\* C11: a connect(uuid) of a connected uuid returns without creating a task, and
\* after any number of connect calls at most one lifecycle task of a uuid is
\* alive (a task whose cancellation was requested is not counted)
AtMostOneTaskPerUUID ==
    /\ [](\A u \in CliUUIDs : Cardinality(LiveTasks(u)) <= 1)
    /\ [][\A u \in DOMAIN connections :
             (connection_states[u] = "connected" /\ opLog' = Logged(opLog, u, "connect"))
             => tasks' = tasks]_vars

\* task t leaves the try block of its loop in this step without having been
\* cancelled, with the driver running, its event queue set and the connection
\* registered: its connect attempt failed or its read loop ended
LeavesTry(t) ==
    /\ tasks[t].pc \in {"connecting", "reading"}
    /\ tasks'[t].pc \in {"sleeping", "done"}
    /\ ~tasks'[t].cancelled
    /\ drvRunning /\ main_loop
    /\ tasks[t].uuid \in DOMAIN connections

\* the step enqueues one Disconnect event for uuid u at the tail of the queue
EnqueuesDisconnect(u) ==
    /\ Len(cliQueue') = Len(cliQueue) + 1
    /\ cliQueue'[Len(cliQueue')].type = "disconnect"
    /\ cliQueue'[Len(cliQueue')].uuid = u

\* C12: every end of the read loop (normal close, close with an error,
\* transport error) and every failed connect attempt leaves the state
\* 'disconnected' (or 'error', when the loop gives up in the same step) and
\* enqueues a Disconnect event for the uuid
EveryTerminationEmitsDisconnect ==
    [][\A t \in DOMAIN tasks :
          LeavesTry(t)
          => /\ connection_states'[tasks[t].uuid] \in {"disconnected", "error"}
             /\ EnqueuesDisconnect(tasks[t].uuid)]_vars

\* the step enqueues one Message event for uuid u at the tail of the queue
EnqueuesMessage(u) ==
    /\ Len(cliQueue') = Len(cliQueue) + 1
    /\ cliQueue'[Len(cliQueue')].type = "message"
    /\ cliQueue'[Len(cliQueue')].uuid = u

\* C13: the driver appends each event at the tail of the queue in the step in
\* which it occurs; a Message event of a uuid is enqueued only by a session
\* whose Connect event was enqueued before and which has not ended; a
\* Disconnect event is enqueued only by the step that ends a session or an
\* attempt
EventsInSessionOrder ==
    [][/\ Len(cliQueue') > Len(cliQueue)
          => cliQueue' = Append(cliQueue, cliQueue'[Len(cliQueue')])
       /\ \A u \in CliUUIDs :
             EnqueuesMessage(u)
             => \E t \in DOMAIN tasks :
                    /\ tasks[t].uuid = u
                    /\ tasks[t].pc = "reading" /\ tasks'[t].pc = "reading"
                    /\ tasks[t].announced
       /\ \A u \in CliUUIDs :
             EnqueuesDisconnect(u)
             => \E t \in DOMAIN tasks :
                    /\ tasks[t].uuid = u
                    /\ tasks[t].pc \in {"connecting", "reading"}
                    /\ tasks'[t].pc \in {"sleeping", "done"}]_vars

(***************************************************************************)
(* Properties of the client's read loop                                    *)
(***************************************************************************)
\* task t hands a frame to _handle_message in this step
Receives(t) == Len(tasks'[t].got) = Len(tasks[t].got) + 1

ReceivedFrame(t) == tasks'[t].got[Len(tasks'[t].got)]

\* the envelope carries a (non-empty) msg_id and is not an acknowledgement
AsksForAck(f) == f.kind = "object" /\ f.mid = "m1" /\ f.mtype # "sys_ack"

EveryFrameBecomesMessage ==
    [][\A t \in DOMAIN tasks :
          Receives(t)
          => /\ EnqueuesMessage(tasks[t].uuid)
             /\ tasks'[t].pc = "reading"]_vars

(***************************************************************************)
(* Properties of the message classification                                *)
(***************************************************************************)
\* the handler the claim assigns to an envelope type
ClaimedHandler(mt) ==
    IF mt = "sys_std" THEN "on_message"
    ELSE IF mt \in CustomPrefixed /\ mt \in RegisteredCustom THEN mt
    ELSE "none"

\* the handlers begun in this step
Begun(hs, hs2) ==
    IF Len(hs2) > Len(hs) THEN {hs2[i].pc : i \in (Len(hs) + 1)..Len(hs2)} ELSE {}

MatchesKey(k) ==
    {u \in DOMAIN connections :
        connection_states[u] = "connected" /\ connections[u].api_key = k}

MatchesPlatform(p) ==
    {u \in DOMAIN connections :
        connection_states[u] = "connected" /\ connections[u].platform = p}

\* C17: the connection send_message finds for (api key, platform) is a
\* connected connection matching both if there is one, else a connected one
\* matching the api key if there is one, else a connected one matching the
\* platform if there is one, else none; it is never a connection whose state
\* is not 'connected'; and with none found send_message returns false and
\* writes nothing
FindsByTiers ==
    [][cliCall' # cliCall
       => LET k == cliCall'.key
              p == cliCall'.platform
              r == cliCall'.found
          IN  /\ IF MatchesKey(k) \cap MatchesPlatform(p) # {}
                 THEN r \in MatchesKey(k) \cap MatchesPlatform(p)
                 ELSE IF MatchesKey(k) # {} THEN r \in MatchesKey(k)
                 ELSE IF MatchesPlatform(p) # {} THEN r \in MatchesPlatform(p)
                 ELSE r = "none"
              /\ r # "none" => connection_states[r] = "connected"
              /\ r = "none" => ~cliCall'.result /\ ~cliCall'.wrote]_vars

\* C17 witness: with a connection of the target's api key registered but not
\* connected, send_message found the connected connection that matches the
\* platform only
FoundByPlatformOnly ==
    /\ cliCall.pc = "returned"
    /\ cliCall.found \in DOMAIN connections
    /\ connections[cliCall.found].api_key # cliCall.key
    /\ connections[cliCall.found].platform = cliCall.platform
    /\ \E u \in DOMAIN connections :
           connections[u].api_key = cliCall.key /\ connection_states[u] # "connected"

(***************************************************************************)
(* Properties of the custom messages                                       *)
(***************************************************************************)
\* the registered connections of user tu, on platform tp or on every platform
ConnectionsOfUser(tu, tp) ==
    IF tu \notin DOMAIN user_connections THEN {}
    ELSE IF tp = "none"
         THEN UNION {user_connections[tu][p] : p \in DOMAIN user_connections[tu]}
         ELSE Get(user_connections[tu], tp, {})

\* C18: send_custom_message resolves an explicit connection_uuid to that
\* connection, else a target_user to the user's registered connections (on
\* target_platform if given, else on every platform), else to nothing; the
\* result map's keys are the resolved uuids, and the call does not raise for a
\* registered user
CustomSendResolvesTargets ==
    [][(srvCall' # srvCall /\ srvCall'.kind = "custom")
       => LET cu == srvCall'.uuid
              tu == srvCall'.user
              tp == srvCall'.platform
              claimed == IF cu # "none" THEN {cu}
                         ELSE IF tu # "none" THEN ConnectionsOfUser(tu, tp)
                         ELSE {}
          IN  /\ srvCall'.pc = "returned"
              /\ DOMAIN srvCall'.results = claimed]_vars

\* C19: a custom message sent with send_custom_message(T), T with or without
\* the custom_ prefix, is dispatched on the receiving side to the handler
\* registered with register_custom_handler(T), from the client to the server
\* and from the server to the client
CustomTypeReachesHandler ==
    [][/\ (srvQueue # <<>> /\ Head(srvQueue).type = "message" /\ srvQueue' = Tail(srvQueue))
          => \A T \in CustomNames :
                 (Head(srvQueue).mtype = ClientWireType(T) /\ RegisterKey(T) \in RegisteredCustom)
                 => Begun(srvHandlers, srvHandlers') = {RegisterKey(T)}
       /\ (cliQueue # <<>> /\ Head(cliQueue).type = "message" /\ cliQueue' = Tail(cliQueue))
          => \A T \in CustomNames :
                 (Head(cliQueue).mtype = ServerWireType(T) /\ RegisterKey(T) \in RegisteredCustom)
                 => Begun(cliHandlers, cliHandlers') = {RegisterKey(T)}]_vars

(***************************************************************************)
(* Properties of the driver's disconnect                                   *)
(***************************************************************************)
\* the last driver operation on the main connection was disconnect
DisconnectedLast == opLog # <<>> /\ opLog[Len(opLog)].op = "disconnect"

\* the connection is connecting, connected or waiting for a reconnect
Engaged(u) ==
    \/ connection_states[u] \in {"connecting", "connected"}
    \/ \E t \in DOMAIN tasks : tasks[t].uuid = u /\ tasks[t].pc = "sleeping"

\* C20: when disconnect(uuid) returns, whatever the connection was doing, its
\* state is 'disconnected', the uuid is not in active_connections and every
\* lifecycle task of the uuid is over or has its cancellation requested; and
\* until the next operation on the connection no connect attempt is made and
\* no Message event is enqueued for it
DisconnectStopsConnection ==
    /\ [][\A u \in DOMAIN connections :
             (opLog' = Logged(opLog, u, "disconnect") /\ Engaged(u))
             => /\ connection_states'[u] = "disconnected"
                /\ u \notin DOMAIN active_connections'
                /\ \A t \in DOMAIN tasks' :
                       tasks'[t].uuid = u => (TaskDone(tasks'[t]) \/ tasks'[t].cancelled)]_vars
    /\ [][(DisconnectedLast /\ opLog' = opLog)
             => /\ connectAttempts' = connectAttempts
                /\ ~EnqueuesMessage(MainUUID)]_vars

(***************************************************************************)
(* Properties of the driver's control operations and its send              *)
(***************************************************************************)
ControlOps == {"add", "connect", "disconnect", "remove"}

\* the step is a control operation op on uuid u that returned false
ReturnsFalse(op, u) ==
    drvCall' # drvCall /\ drvCall'.op = op /\ drvCall'.uuid = u /\ ~drvCall'.result

\* the step is a control operation op on uuid u that returned true
ReturnsTrue(op, u) == opLog' = Logged(opLog, u, op)

\* the step is the control operation op on uuid u
Called(op, u) == ReturnsFalse(op, u) \/ ReturnsTrue(op, u)

TablesUnchanged ==
    UNCHANGED <<connections, connection_states, active_connections, connection_tasks>>

\* C21: add_connection of a registered uuid, and connect, disconnect and
\* remove_connection of an unregistered uuid, return false and leave the four
\* tables unchanged; a successful add_connection registers the uuid with the
\* state 'disconnected' and changes no other entry
BadUUIDRefusedWithoutEffect ==
    [][\A u \in CliUUIDs :
          /\ (Called("add", u) /\ u \in DOMAIN connections)
             => ReturnsFalse("add", u) /\ TablesUnchanged
          /\ \A op \in ControlOps \ {"add"} :
                (Called(op, u) /\ u \notin DOMAIN connections)
                => ReturnsFalse(op, u) /\ TablesUnchanged
          /\ ReturnsTrue("add", u)
             => /\ u \notin DOMAIN connections
                /\ DOMAIN connections' = DOMAIN connections \cup {u}
                /\ DOMAIN connection_states' = DOMAIN connection_states \cup {u}
                /\ connection_states'[u] = "disconnected"
                /\ \A v \in DOMAIN connections : connections'[v] = connections[v]
                /\ \A v \in DOMAIN connection_states \ {u} :
                       connection_states'[v] = connection_states[v]
                /\ UNCHANGED <<active_connections, connection_tasks>>]_vars

\* C21 witness: a second add_connection of a registered uuid was refused while
\* the first registration's task is connected
DuplicateAddRefused ==
    /\ drvCall.op = "add" /\ ~drvCall.result
    /\ drvCall.uuid \in DOMAIN active_connections

\* the step is a send_message of the driver
Sends == drvCall' # drvCall /\ drvCall'.op = "send"

\* C22: the driver's send returns false and writes nothing when the uuid is
\* not in active_connections; on every failure of the write it returns false
\* and marks the state 'disconnected'; it returns true only when the envelope
\* was written
SendFailsSafely ==
    [][Sends
       => LET u == drvCall'.uuid
          IN  /\ u \notin DOMAIN active_connections
                 => ~drvCall'.result /\ ~drvCall'.wrote /\ TablesUnchanged
              /\ (drvCall'.wrote /\ drvCall'.out # "ok")
                 => ~drvCall'.result /\ connection_states'[u] = "disconnected"
              /\ drvCall'.result => drvCall'.wrote /\ drvCall'.out = "ok"]_vars

(***************************************************************************)
(* Properties of the driver's stop                                         *)
(***************************************************************************)
TablesEmpty ==
    /\ connections = EmptyMap /\ connection_states = EmptyMap
    /\ active_connections = EmptyMap /\ connection_tasks = EmptyMap

\* the step is ClientNetworkDriver.stop() of a running driver
DriverStops == drvRunning /\ ~drvRunning'

\* C23: stop() of the running driver sets the shutdown flag, leaves the four
\* tables empty, no lifecycle task running and the stats at zero; and after it
\* no step other than a new driver operation writes a table entry or a counter
StopLeavesNothing ==
    /\ [][DriverStops
           => /\ shutdown_event' /\ TablesEmpty'
              /\ drvStats'.current_connections = 0
              /\ \A t \in DOMAIN tasks' : ~Runnable(t)']_vars
    /\ [][(shutdown_event /\ ~drvRunning /\ TablesEmpty /\ opLog' = opLog)
           => TablesEmpty' /\ drvStats' = drvStats]_vars

(***************************************************************************)
(* Properties of the callbacks' exceptions                                 *)
(***************************************************************************)
\* the step is a business callback raising
CallbackRaises == Len(raised') = Len(raised) + 1

\* C24: an exception of a business callback never ends a dispatcher loop: the
\* step in which the callback raises leaves the dispatcher ready for the next
\* event, with the queue and the registry as they were, and no dispatcher task
\* is ever over while its side is running
CallbackErrorsContained ==
    /\ [](/\ \A i \in DOMAIN srvHandlers : srvHandlers[i].pc # "crashed"
          /\ \A i \in DOMAIN cliHandlers : cliHandlers[i].pc # "crashed")
    /\ [][CallbackRaises
           => /\ srvHandlers' = <<>> /\ cliHandlers' = <<>>
              /\ srvQueue' = srvQueue /\ cliQueue' = cliQueue
              /\ UNCHANGED RegistryTables
              /\ UNCHANGED <<connections, connection_states, active_connections>>]_vars

\* C24 witness: after on_connect raised for one connection, a dispatcher is
\* inside the handler of a later event of another connection
DispatchedAfterRaise ==
    /\ raised # <<>> /\ raised[1].cb = "on_connect"
    /\ \/ \E i \in DOMAIN srvHandlers :
              /\ srvHandlers[i].pc \in Callbacks
              /\ srvHandlers[i].ev.meta.uuid # raised[1].uuid
       \/ \E i \in DOMAIN cliHandlers :
              /\ cliHandlers[i].pc \in Callbacks
              /\ cliHandlers[i].ev.uuid # raised[1].uuid

(***************************************************************************)
(* Properties of the configuration                                         *)
(***************************************************************************)
\* C25: WebSocketServer raises exactly when the config (the default one
\* included) has no on_auth_extract_user, WebSocketClient raises exactly when
\* url or api_key is empty or the url starts with neither ws:// nor wss://; an
\* object that was created has the extractor it was given, and a missing
\* on_auth replaced by the default, which accepts exactly the handshakes with
\* a non-empty api_key
ConfigErrorsFailFast ==
    /\ \A i \in DOMAIN built :
          LET b == built[i]
          IN  /\ b.kind = "server"
                 => /\ b.raised <=> b.srv.on_auth_extract_user = "none"
                    /\ ~b.raised
                       => /\ b.config.on_auth_extract_user = b.srv.on_auth_extract_user
                          /\ b.config.on_auth =
                                 IF b.srv.on_auth = "none" THEN "default_auth" ELSE b.srv.on_auth
              /\ b.kind = "client"
                 => (b.raised <=> \/ b.cli.url = <<>> \/ b.cli.api_key = ""
                                  \/ b.cli.url[1] \notin {"ws://", "wss://"})
    /\ \A k \in HandshakeKeys : DefaultAuth(k) <=> k = "k1"

\* C25 witness: the default server config was refused, and a server config
\* with an extractor and no on_auth got the default on_auth
DefaultRefusedAndAuthDefaulted ==
    /\ Len(built) = 2
    /\ built[1].kind = "server" /\ built[1].raised /\ built[1].srv = DefaultServerConfig
    /\ built[2].kind = "server" /\ ~built[2].raised /\ built[2].config.on_auth = "default_auth"

(***************************************************************************)
(* Properties of the standard message                                      *)
(***************************************************************************)
\* the payload is the to_dict of a message
IsStructured(payload) == \E m \in Messages : payload = ToDict(m)

\* C26: the message on_message gets for the payload message.to_dict() equals
\* the message; every other payload, which lacks message_info or
\* message_segment, reaches on_message wrapped as a text segment with the
\* platform and the api key of the receiving connection
StandardMessageRoundTrip ==
    \A i \in DOMAIN stdMsg :
        LET d == stdMsg[i]
        IN  /\ d.called
            /\ \A m \in Messages : d.payload = ToDict(m) => d.message = m
            /\ ~IsStructured(d.payload)
               => /\ d.message.message_segment.type = "text"
                  /\ d.message.message_info.platform = d.platform
                  /\ d.message.message_dim = [api_key |-> d.api_key, platform |-> d.platform]

(***************************************************************************)
(* Properties of the event queue                                           *)
(***************************************************************************)
\* the dispatcher takes the head of the queue and dispatches it: it begins the
\* handler of that event, or none when the event has no handler
TakesAndDispatchesHead ==
    /\ cliQueue # <<>> /\ cliQueue' = Tail(cliQueue)
    /\ cliRunning /\ cliHandlers = <<>>
    /\ IF ClientHandlerOf(Head(cliQueue)) = "none"
       THEN cliHandlers' = <<>>
       ELSE cliHandlers' = <<Handler(Head(cliQueue), ClientHandlerOf(Head(cliQueue)), "none")>>

\* the driver puts one event at the tail
PutsOne == \E ev \in {cliQueue'[Len(cliQueue')]} : cliQueue' = Append(cliQueue, ev)

MaxQueued == 2 * MaxTasks + MaxFrames

\* C27: an event of the client driver is put on the queue once and dispatched
\* exactly once: the queue changes only by one event put at its tail or by the
\* running dispatcher taking its head and dispatching it, a handler begins
\* only for the event taken, a timeout of the get takes nothing, and while
\* the client runs every event on the queue is taken
EventsDispatchedExactlyOnce ==
    /\ [][/\ cliQueue' # cliQueue
             => IF Len(cliQueue') > Len(cliQueue) THEN PutsOne ELSE TakesAndDispatchesHead
          /\ Len(cliHandlers') > Len(cliHandlers) => TakesAndDispatchesHead
          /\ timeouts' # timeouts => cliQueue' = cliQueue /\ cliHandlers' = cliHandlers]_vars
    /\ \A n \in 1..MaxQueued :
           (Len(cliQueue) = n /\ cliRunning) ~> (Len(cliQueue) < n \/ ~cliRunning)

\* C27 witness: the get timed out while an event was on the queue, and the
\* dispatcher is now in the handler of an event it took afterwards
DispatchedAfterTimeout ==
    /\ timeouts > 0 /\ cliRunning
    /\ cliHandlers # <<>> /\ cliHandlers[1].ev.type = "message"
    /\ cliQueue # <<>>

(***************************************************************************)
(* Properties of the connection state                                      *)
(***************************************************************************)
StateNames == {"disconnected", "connecting", "connected", "error"}

\* the transitions of the state of a connection
Transitions ==
    {<<"disconnected", "connecting">>, <<"connecting", "connected">>,
     <<"connecting", "disconnected">>, <<"connected", "disconnected">>,
     <<"disconnected", "error">>}

\* the transitions one step of a lifecycle task shows: the `finally` block and
\* the reconnect decision run without an await between them, so the state
\* can pass "disconnected" on its way to "error" within the step
StepTransitions ==
    Transitions \cup {<<"connecting", "error">>, <<"connected", "error">>}

\* the uuid is registered before and after the step and its state differs
StateChanges(u) ==
    /\ u \in DOMAIN connections /\ u \in DOMAIN connections'
    /\ u \in DOMAIN connection_states /\ u \in DOMAIN connection_states'
    /\ connection_states'[u] # connection_states[u]

\* the step is one of a lifecycle task of the connection
StepOfOwnLoop(u) ==
    \E t \in DOMAIN tasks : tasks[t].uuid = u /\ tasks'[t].pc # tasks[t].pc

\* the step is one of a lifecycle task of the connection that has used up its
\* reconnect attempts
StepOfExhaustedLoop(u) ==
    \E t \in DOMAIN tasks :
        /\ tasks[t].uuid = u /\ tasks'[t].pc # tasks[t].pc
        /\ tasks[t].attempts >= tasks[t].cfg.max_reconnect_attempts

\* C28: every registered connection has exactly one of the four states; the
\* state changes only along disconnected -> connecting, connecting ->
\* connected, connecting -> disconnected, connected -> disconnected and
\* disconnected -> error, to "error" only when the attempts are used up, and
\* only a step of the connection's own lifecycle loop changes it
StateMachineRespected ==
    /\ [](\A u \in DOMAIN connections :
             u \in DOMAIN connection_states /\ connection_states[u] \in StateNames)
    /\ [][\A u \in CliUUIDs :
             StateChanges(u)
             => /\ <<connection_states[u], connection_states'[u]>> \in StepTransitions
                /\ StepOfOwnLoop(u)
                /\ connection_states'[u] = "error" => StepOfExhaustedLoop(u)]_vars

(***************************************************************************)
(* Properties of the reconnect decision                                    *)
(***************************************************************************)
\* task t, which nobody cancelled, takes the step from pc a to pc b
LoopMoves(t, a, b) ==
    /\ tasks[t].pc \in a /\ tasks'[t].pc \in b
    /\ ~tasks[t].cancelled /\ ~tasks'[t].cancelled

\* the conditions of the claim at the reconnect decision of task t
MayReconnect(t) ==
    /\ drvRunning
    /\ tasks[t].uuid \in DOMAIN connections
    /\ tasks[t].attempts < tasks[t].cfg.max_reconnect_attempts
    /\ ~shutdown_event

\* the step writes "error" as the state of the task's connection
WritesError(t) ==
    /\ tasks[t].uuid \in DOMAIN connection_states'
    /\ connection_states'[tasks[t].uuid] = "error"
    /\ Get(connection_states, tasks[t].uuid, "none") # "error"

\* C29: the loop goes on to another connect attempt iff at the reconnect
\* decision the driver runs, the connection is registered, the attempt
\* counter is below max_reconnect_attempts and the shutdown flag is not set:
\* it enters the reconnect wait exactly then, and after the wait it makes the
\* attempt unless the shutdown flag was set meanwhile; with the shutdown flag
\* set at the decision or after the wait it ends without another attempt and
\* without the state "error"
ReconnectIffDecision ==
    [][\A t \in DOMAIN tasks :
          /\ LoopMoves(t, {"connecting", "reading"}, {"sleeping", "done"})
             => /\ tasks'[t].pc = "sleeping" <=> MayReconnect(t)
                /\ shutdown_event => ~WritesError(t)
          /\ LoopMoves(t, {"sleeping"}, {"connecting", "done"})
             => /\ tasks'[t].pc = "connecting" <=> ~shutdown_event
                /\ shutdown_event => ~WritesError(t)]_vars

(***************************************************************************)
(* Properties of an explicit connect after the lifecycle task ended        *)
(***************************************************************************)
\* connect(u) is called on a registered uuid and returns true
ConnectReturnsTrue(u) ==
    /\ u \in DOMAIN connections
    /\ opLog' = Logged(opLog, u, "connect")

\* a lifecycle task of the connection is running
HasRunningTask(ts, u) ==
    \E t \in DOMAIN ts : ts[t].uuid = u /\ ~TaskDone(ts[t]) /\ ~ts[t].cancelled

\* every lifecycle task of the connection has ended, and there was one
TaskEnded(u) ==
    /\ \E t \in DOMAIN tasks : tasks[t].uuid = u
    /\ \A t \in DOMAIN tasks : tasks[t].uuid = u => TaskDone(tasks[t])

\* the step starts a lifecycle task for the connection with its attempt
\* counter at zero
StartsFreshTask(u) ==
    /\ Len(tasks') = Len(tasks) + 1
    /\ tasks'[Len(tasks')].uuid = u
    /\ tasks'[Len(tasks')].pc = "start"
    /\ tasks'[Len(tasks')].attempts = 0

\* C30: after the lifecycle task of a registered connection has ended with
\* the state "error" or "disconnected", connect(uuid) with the driver running
\* starts a new lifecycle task with its attempt counter reset; and connect
\* never returns true leaving the connection without a running lifecycle task
\* in a state other than "connected"
ConnectRestartsEndedLoop ==
    [][\A u \in CliUUIDs :
          ConnectReturnsTrue(u)
          => /\ (drvRunning /\ TaskEnded(u)
                    /\ connection_states[u] \in {"error", "disconnected"})
                => StartsFreshTask(u)
             /\ connection_states'[u] = "connected" \/ HasRunningTask(tasks', u)]_vars

(***************************************************************************)
(* Properties of the registry on disconnects                               *)
(***************************************************************************)
\* the uuid appears in one of the four registry tables
InRegistry(uc, pcn, cu, md, c) ==
    \/ \E u \in DOMAIN uc : \E p \in DOMAIN uc[u] : c \in uc[u][p]
    \/ \E p \in DOMAIN pcn : c \in pcn[p]
    \/ c \in DOMAIN cu
    \/ c \in DOMAIN md

\* a user with an empty platform map, or a (user, platform) or a platform with
\* an empty connection set
HasEmptyContainer(uc, pcn) ==
    \/ \E u \in DOMAIN uc : DOMAIN uc[u] = {}
    \/ \E u \in DOMAIN uc : \E p \in DOMAIN uc[u] : uc[u][p] = {}
    \/ \E p \in DOMAIN pcn : pcn[p] = {}

\* the dispatcher takes a Disconnect event of a connection that is registered
HandlesDisconnectOf(c) ==
    /\ srvRunning /\ srvHandlers = <<>>
    /\ srvQueue # <<>> /\ srvQueue' = Tail(srvQueue)
    /\ Head(srvQueue).type = "disconnect" /\ Head(srvQueue).meta.uuid = c
    /\ c \in DOMAIN connection_users

\* C31: when the dispatcher has handled a Disconnect event of a registered
\* connection, its uuid is in none of the four tables, no user maps to an
\* empty platform map and no (user, platform) or platform to an empty set, and
\* on_disconnect is invoked once, for that uuid
DisconnectCleansRegistry ==
    [][\A c \in UUIDs :
          HandlesDisconnectOf(c)
          => /\ ~InRegistry(user_connections', platform_connections', connection_users',
                            connection_metadata', c)
             /\ ~HasEmptyContainer(user_connections', platform_connections')
             /\ Len(srvHandlers') = 1
             /\ srvHandlers'[1].pc = "on_disconnect"
             /\ srvHandlers'[1].ev.meta.uuid = c]_vars

\* the uuid is in the registry of this state
Registered(c) ==
    InRegistry(user_connections, platform_connections, connection_users, connection_metadata, c)

\* a Connect handler registers the uuid after its authentication succeeded
RegisteredByAuthentication(c) ==
    \E i \in DOMAIN srvHandlers \cap DOMAIN srvHandlers' :
        /\ srvHandlers[i].pc = "auth" /\ srvHandlers[i].ev.type = "connect"
        /\ srvHandlers[i].ev.meta.uuid = c
        /\ srvHandlers'[i].auth = "ok"

\* C32: a uuid enters the registry only through a Connect event that passed
\* authentication; and while the server runs, a registered uuid none of whose
\* sockets is open any more is eventually in no registry table
StalenessNeverPermanent ==
    /\ [][\A c \in UUIDs : (~Registered(c) /\ Registered(c)') => RegisteredByAuthentication(c)]_vars
    /\ \A c \in UUIDs :
           (srvRunning /\ Registered(c) /\ Receivers(c) = {}) ~> (~Registered(c) \/ ~srvRunning)

(***************************************************************************)
(* Properties of start()                                                   *)
(***************************************************************************)
\* a start() call is made in this step
StartCalled == starter'.calls = starter.calls + 1

\* the server, or the client and its driver, are running
AllRunning == IF side = "server" THEN srvRunning ELSE cliRunning /\ drvRunning

\* C33: however often and however concurrently start() is called on the
\* client driver, the client or the server, at most one worker thread and at
\* most one dispatcher task of each exist (a client's dispatcher task counts
\* from the start() call that is about to create it), and a start() on a
\* running object creates nothing
StartIsIdempotent ==
    /\ [](starter.workers <= 1 /\ starter.cliTasks + starter.sleeping <= 1
            /\ starter.srvTasks <= 1)
    /\ [][(StartCalled /\ AllRunning)
          => starter' = [starter EXCEPT !.calls = @ + 1, !.noops = @ + 1]]_vars

(***************************************************************************)
(* Properties of the client driver's tables                                *)
(***************************************************************************)
\* C34: in every state of the client driver connections and connection_states
\* have the same keys, every key of active_connections and of
\* connection_tasks is a key of connections, and a uuid is in
\* active_connections only while its state is "connected"
TablesConsistent ==
    /\ DOMAIN connection_states = DOMAIN connections
    /\ DOMAIN active_connections \subseteq DOMAIN connections
    /\ DOMAIN connection_tasks \subseteq DOMAIN connections
    /\ \A u \in DOMAIN active_connections :
           Get(connection_states, u, "none") = "connected"

\* C35: stats["current_connections"] is never negative and, between the steps
\* of the lifecycle tasks, equals the number of entries of active_connections
\* (get_connection_count, lines 529-531); a failed connect attempt leaves it
\* unchanged
CurrentConnectionsExact ==
    /\ drvStats.current_connections >= 0
    /\ drvStats.current_connections = Cardinality(DOMAIN active_connections)

(***************************************************************************)
(* Properties of the server's connection callbacks                         *)
(***************************************************************************)
\* C36: on_disconnect(uuid) is invoked only for a connection for which
\* on_connect(uuid) was invoked before, and at most once for each on_connect:
\* at no time has a uuid seen more on_disconnect than on_connect invocations
\* (a connection whose authentication failed produces no on_disconnect)
DisconnectOnlyAfterConnect ==
    \A c \in UUIDs : callbackBalance[c] >= 0

(***************************************************************************)
(* Properties of WebSocketClient.connected                                 *)
(***************************************************************************)
\* the driver's state of the client's main connection is "connected"
MainConnected(cs) == Get(cs, MainUUID, "none") = "connected"

\* the dispatcher takes a Disconnect event of a connection other than the main one
DispatchesOtherDisconnect ==
    /\ cliRunning /\ cliHandlers = <<>> /\ cliQueue # <<>>
    /\ cliQueue' = Tail(cliQueue)
    /\ Head(cliQueue).type = "disconnect" /\ Head(cliQueue).uuid # MainUUID

\* disconnect() of the main connection returns true in this step
MainDisconnectReturnsTrue ==
    /\ Len(opLog') = Len(opLog) + 1
    /\ opLog'[Len(opLog')] = [uuid |-> MainUUID, op |-> "disconnect"]

\* C37: once the event queue is drained is_connected() is true exactly when
\* the driver's state of the main connection is "connected"; a Disconnect
\* event of another managed connection does not make it false while the main
\* connection is connected; after disconnect() of the main connection has
\* returned true it is false
IsConnectedTracksMain ==
    /\ []((cliRunning /\ cliQueue = <<>>) => (connected <=> MainConnected(connection_states)))
    /\ [][(DispatchesOtherDisconnect /\ connected /\ MainConnected(connection_states))
            => connected']_vars
    /\ [][MainDisconnectReturnsTrue => ~connected']_vars

(***************************************************************************)
(* Properties of sends that overlap the dispatcher                         *)
(***************************************************************************)
\* the four registry tables
Registry == <<user_connections, platform_connections, connection_users, connection_metadata>>

\* a handler of the dispatcher task takes this step
DispatcherStep == srvHandlers' # srvHandlers

\* C38: a send_message or broadcast_message(platform) that is suspended at a
\* write while the dispatcher handles Connect and Disconnect events completes
\* without error and returns a result for every connection of the target set
\* it resolved; and while the server runs, only steps of the dispatcher task
\* change the registry
SendsSurviveDispatcher ==
    /\ [](srvCall.kind \in {"send", "bcast"} => srvCall.pc # "raised")
    /\ []((srvCall.kind \in {"send", "bcast"} /\ srvCall.pc = "returned")
            => DOMAIN srvCall.results = srvCall.resolved)
    /\ [][(srvRunning /\ srvRunning' /\ Registry' # Registry) => DispatcherStep]_vars

(***************************************************************************)
(* Properties of the recipients of business envelopes                      *)
(***************************************************************************)
\* the connections to which this step of a business API call wrote an
\* envelope that the driver delivered
Delivered ==
    IF srvCall' = srvCall THEN {}
    ELSE IF srvCall'.kind = "custom"
         THEN {c \in DOMAIN srvCall'.results : srvCall'.results[c]}
         ELSE {c \in WrittenTo : srvCall'.results[c]}

\* C39: send_message, send_custom_message and broadcast_message write
\* business envelopes only to connections that are in the registry at the
\* time of the write: a connection that is accepted but whose Connect event
\* is not dispatched yet, or whose authentication failed, receives none
WritesOnlyToRegistered ==
    [][\A c \in Delivered : c \in DOMAIN connection_users]_vars

====
